---- MODULE Spec2Model ----
(***************************************************************************)
(* Model of quantnn's mixed regression neural network (quantnn/mrnn.py):   *)
(* the target representations Quantiles / Density / Mean and the MRNN      *)
(* dispatch layer (predict and the nine query methods), together with the  *)
(* losses and the training loop of the PyTorch backend                     *)
(* (quantnn/models/pytorch/common.py).                                     *)
(*                                                                         *)
(* Python values are encoded as follows.                                   *)
(*   - An optional value is a set with at most one element: {} is None.    *)
(*   - A tensor is [base, ops]: where it comes from and the operations     *)
(*     applied to it so far, in order.                                     *)
(*   - A prediction / ground truth is [kind, t, items]: None, one tensor,  *)
(*     or a dict given as its items in insertion order.                    *)
(*   - The value returned by quantnn.quantiles (qq) / quantnn.density (qd) *)
(*     is the term [lib, fn, ...] recording the call and its arguments.    *)
(*   - A call's result is [status, ...]: "return" or the exception raised. *)
(***************************************************************************)
EXTENDS Integers, Sequences, FiniteSets, TLC

VARIABLES losses, transformation, modelOut, call, outcome,
          engine, modelDevice, threads, criterion, net

vars ==
    <<losses, transformation, modelOut, call, outcome,
      engine, modelDevice, threads, criterion, net>>

(***************************************************************************)
(* Bounds and input domains                                                *)
(***************************************************************************)
MaxSamples == 1

Keys == {"a", "b"}

None == {}

\* An attribute that the instance does not have.
Missing == {"<no attribute>"}

QuantileFractions == <<10, 50, 90>>

BinEdges == <<0, 1, 2, 3, 4>>

\* The bins argument of Density: one array of bin edges, or a mapping from
\* output key to such an array.
Bins(edges) == [kind |-> "array", edges |-> edges, items |-> <<>>]

BinsMapping(items) == [kind |-> "dict", edges |-> <<>>, items |-> items]

\* The values given for Density's bin_axis argument (None: omitted).
BinAxisArgs == {{}, {1}, {2}}

NewQuantiles == <<25, 75>>

Threshold == <<5>>

(***************************************************************************)
(* Tensors, predictions, terms                                             *)
(***************************************************************************)
NoTensor == [base |-> <<>>, ops |-> <<>>]

SourceTensor(src, k) == [base |-> <<src, k>>, ops |-> <<>>]

ModelTensor(k) == SourceTensor("model", k)

CallerTensor(k) == SourceTensor("caller", k)

TruthTensor(k) == SourceTensor("y_true", k)

Op(name, param, axis) == [op |-> name, param |-> param, axis |-> axis]

WithOp(t, o) == [t EXCEPT !.ops = Append(@, o)]

PyNone == [kind |-> "None", t |-> NoTensor, items |-> <<>>]

PyTensor(t) == [kind |-> "tensor", t |-> t, items |-> <<>>]

PyDict(items) == [kind |-> "dict", t |-> NoTensor, items |-> items]

Item(k, v) == [k |-> k, v |-> v]

DictOf(ks, src) ==
    PyDict([i \in 1..Len(ks) |-> Item(ks[i], SourceTensor(src, ks[i]))])

ItemKeys(items) == {items[i].k : i \in 1..Len(items)}

HasKey(items, k) == k \in ItemKeys(items)

GetItem(items, k) == items[CHOOSE i \in 1..Len(items) : items[i].k = k].v

NoTerm ==
    [lib |-> "-", fn |-> "-", y_pred |-> NoTensor, y_true |-> PyNone,
     param |-> None, arg |-> None, axis |-> None]

Term(lib, fn, y_pred, y_true, param, arg, axis) ==
    [lib |-> lib, fn |-> fn, y_pred |-> y_pred, y_true |-> y_true,
     param |-> param, arg |-> arg, axis |-> axis]

\* What a representation's method hands back: a value or an exception.
Returned(v) == [status |-> "return", v |-> v]

Raised(e) == [status |-> e, v |-> NoTerm]

TReturned(t) == [status |-> "return", t |-> t]

TRaised(e) == [status |-> e, t |-> NoTensor]

\* What an MRNN query method hands back.
NoRet == [kind |-> "-", v |-> NoTerm, items |-> <<>>]

RetNone == [kind |-> "None", v |-> NoTerm, items |-> <<>>]

RetValue(v) == [kind |-> "value", v |-> v, items |-> <<>>]

RetDict(items) == [kind |-> "dict", v |-> NoTerm, items |-> items]

Outcome(status, pred, ret, events) ==
    [status |-> status, pred |-> pred, ret |-> ret, events |-> events]

Event(ev, k, arg) == [ev |-> ev, key |-> k, arg |-> arg]

(***************************************************************************)
(* Target representations                                                  *)
(***************************************************************************)
QueryNames ==
    {"cdf", "pdf", "sample_posterior", "sample_posterior_gaussian_fit",
     "posterior_mean", "crps", "probability_larger_than",
     "probability_less_than", "posterior_quantiles"}

\* Quantiles.__init__: quantile_axis is always 1.
Quantiles_init(quantiles) ==
    [cls |-> "Quantiles", quantiles |-> {quantiles}, quantile_axis |-> {1},
     bins |-> None, bin_axis |-> None]

\* Density.__init__: bin_axis is assigned only when the argument is None.
Density_init(bins, bin_axis) ==
    [cls |-> "Density", quantiles |-> None, quantile_axis |-> None,
     bins |-> {bins},
     bin_axis |-> IF bin_axis = None THEN {1} ELSE None]

Mean_init ==
    [cls |-> "Mean", quantiles |-> None, quantile_axis |-> None,
     bins |-> None, bin_axis |-> None]

\* The losses mapping itself, seen as an object (a dict has none of the
\* representations' attributes).
DictObject ==
    [cls |-> "dict", quantiles |-> None, quantile_axis |-> None,
     bins |-> None, bin_axis |-> None]

\* The methods each class defines.
ClassAttrs(cls) ==
    CASE cls = "Quantiles" -> QueryNames \cup {"predict", "get_loss"}
      [] cls = "Density" ->
            QueryNames \cup {"predict", "get_loss", "_post_process_prediction"}
      [] cls = "Mean" -> {"predict", "get_loss", "posterior_mean"}
      [] OTHER -> {}

hasattr(obj, name) == name \in ClassAttrs(obj.cls)

Quantiles_predict(self, y_pred) == TReturned(y_pred)

\* Mutation: self.quantiles is not handed to the library.
Quantiles_query_NoQuantiles(self, m, y_pred, y_true, arg) ==
    Returned(Term("qq", m, y_pred, y_true, None, arg, self.quantile_axis))

\* Mutation: every query delegates to quantnn.quantiles.cdf.
Quantiles_query_CdfForAll(self, m, y_pred, y_true, arg) ==
    Returned(Term("qq", "cdf", y_pred, y_true, self.quantiles, arg,
                  self.quantile_axis))

\* Mutation: with fewer than two quantiles the prediction is handed back as
\* it is instead of being given to the library.
Quantiles_query_ShortPassThrough(self, m, y_pred, y_true, arg) ==
    IF \E q \in self.quantiles : Len(q) < 2
    THEN Returned(Term("self", "y_pred", y_pred, PyNone, None, None, None))
    ELSE Returned(Term("qq", m, y_pred, y_true, self.quantiles, arg,
                       self.quantile_axis))

\* Each Quantiles query converts self.quantiles and delegates to the function
\* of the same name in quantnn.quantiles, with quantile_axis=self.quantile_axis.
Quantiles_query(self, m, y_pred, y_true, arg) ==
    Returned(Term("qq", m, y_pred, y_true, self.quantiles, arg,
                  self.quantile_axis))

\* softmax over axis 1, then qd.normalize(y_pred, bins, bin_axis=self.bin_axis).
Density_predict(self, y_pred) ==
    LET soft == WithOp(y_pred, Op("softmax", None, {1}))
    IN IF self.bin_axis = None
       THEN TRaised("AttributeError")
       ELSE TReturned(WithOp(soft, Op("normalize", self.bins, self.bin_axis)))

\* Each Density query delegates to quantnn.density with bin_axis=self.bin_axis;
\* probability_less_than is the one that passes no bins.
Density_query(self, m, y_pred, y_true, arg) ==
    IF self.bin_axis = None
    THEN Raised("AttributeError")
    ELSE Returned(Term("qd", m, y_pred, y_true,
                       IF m = "probability_less_than" THEN None ELSE self.bins,
                       arg, self.bin_axis))

Mean_predict(self, y_pred) == TReturned(y_pred)

\* Mutation: the mean over the prediction is returned, not the prediction.
Mean_posterior_mean_Averaged(self, y_pred) ==
    Returned(Term("self", "mean", y_pred, PyNone, None, None, None))

Mean_posterior_mean(self, y_pred) ==
    Returned(Term("self", "y_pred", y_pred, PyNone, None, None, None))

\* The array the library works on: the tensor that was passed, or, where a
\* mapping was passed in place of a tensor, a handle for the whole mapping.
AsArray(y_pred) ==
    IF y_pred.kind = "tensor" THEN y_pred.t
    ELSE SourceTensor(y_pred.items[1].v.base[1], "*")

\* Density._post_process_prediction(y_pred, bins, key). get_array_module of
\* a mapping is outside this package: `accepted` says whether it takes it.
Density_post_process_prediction(self, y_pred, bins, key, accepted) ==
    LET own == CHOOSE b \in self.bins : TRUE
        used == IF bins # None THEN bins
                ELSE IF own.kind = "dict"
                THEN {Bins(GetItem(own.items, CHOOSE k \in key : TRUE))}
                ELSE self.bins
        soft == WithOp(AsArray(y_pred), Op("softmax", None, {1}))
    IN IF y_pred.kind = "dict" /\ ~accepted THEN TRaised("Exception")
       ELSE IF /\ bins = None
               /\ own.kind = "dict"
               /\ (key = None \/ ~HasKey(own.items, CHOOSE k \in key : TRUE))
       THEN TRaised("KeyError")
       ELSE IF self.bin_axis = None THEN TRaised("AttributeError")
       ELSE TReturned(WithOp(soft, Op("normalize", used, self.bin_axis)))

\* loss.predict(x): attribute lookup, then the class's method.
CallPredict(loss, y_pred) ==
    IF ~hasattr(loss, "predict") THEN TRaised("AttributeError")
    ELSE CASE loss.cls = "Quantiles" -> Quantiles_predict(loss, y_pred)
           [] loss.cls = "Density" -> Density_predict(loss, y_pred)
           [] OTHER -> Mean_predict(loss, y_pred)

\* loss.<m>(y_pred, ...): attribute lookup, then the class's method.
CallQuery(loss, m, y_pred, y_true, arg) ==
    IF ~hasattr(loss, m) THEN Raised("AttributeError")
    ELSE CASE loss.cls = "Quantiles" ->
                Quantiles_query(loss, m, y_pred, y_true, arg)
           [] loss.cls = "Density" ->
                Density_query(loss, m, y_pred, y_true, arg)
           [] OTHER -> Mean_posterior_mean(loss, y_pred)

(***************************************************************************)
(* MRNN.predict                                                            *)
(***************************************************************************)
\* The underlying model's forward pass: a tensor or a dict of tensors. Here x
\* is an array that is not a torch tensor: PytorchModel.predict then creates
\* x_torch like the model's parameters, and self.to(x_torch.device) moves
\* nothing.
PytorchModel_predict(x) ==
    IF modelOut.kind = "tensor"
    THEN PyTensor(ModelTensor("-"))
    ELSE DictOf(modelOut.keys, "model")

\* Mutation: the transformation is inverted after the post-processing.
predict_inner_InvertLast(k, x, loss, trans) ==
    LET r == CallPredict(loss, x)
        inv == IF trans # None /\ r.status = "return"
               THEN WithOp(r.t, Op("invert", None, None)) ELSE r.t
        evs == <<Event("loss.predict", k, x)>>
               \o (IF trans # None /\ r.status = "return"
                   THEN <<Event("invert", k, r.t)>> ELSE <<>>)
    IN [status |-> r.status, t |-> inv, events |-> evs]

\* The local function predict(x, loss, transformation) of MRNN.predict.
predict_inner(k, x, loss, trans) ==
    LET inv == IF trans # None THEN WithOp(x, Op("invert", None, None)) ELSE x
        evs == (IF trans # None THEN <<Event("invert", k, x)>> ELSE <<>>)
               \o <<Event("loss.predict", k, inv)>>
        r == CallPredict(loss, inv)
    IN [status |-> r.status, t |-> r.t, events |-> evs]

RECURSIVE apply_items(_, _, _, _, _, _)
apply_items(items, i, L, trans, acc, evs) ==
    IF i > Len(items)
    THEN [status |-> "return", pred |-> PyDict(acc), events |-> evs]
    ELSE LET k == items[i].k
         IN IF k \notin DOMAIN L
            THEN [status |-> "KeyError", pred |-> PyNone, events |-> evs]
            ELSE LET r == predict_inner(k, items[i].v, L[k], trans)
                 IN IF r.status # "return"
                    THEN [status |-> r.status, pred |-> PyNone,
                          events |-> evs \o r.events]
                    ELSE apply_items(items, i + 1, L, trans,
                                     Append(acc, Item(k, r.t)),
                                     evs \o r.events)

\* quantnn.utils.apply(f, y, losses, transformation): per output key for a
\* mapping, once (with the arguments as given) for a single output.
apply(y, L, trans) ==
    IF y.kind = "dict"
    THEN apply_items(y.items, 1, L, trans, <<>>, <<>>)
    ELSE LET r == predict_inner("-", y.t, DictObject, trans)
         IN [status |-> r.status,
             pred |-> IF r.status = "return" THEN PyTensor(r.t) ELSE PyNone,
             events |-> r.events]

MRNN_predict(x) ==
    LET y == PytorchModel_predict(x)
        r == IF transformation = Missing
             THEN [status |-> "AttributeError", pred |-> PyNone,
                   events |-> <<>>]
             ELSE apply(y, losses, transformation)
    IN [status |-> r.status, pred |-> r.pred,
        events |-> <<Event("forward", "-", NoTensor)>> \o r.events]

(***************************************************************************)
(* The query methods of MRNN                                               *)
(***************************************************************************)
\* Mutation: the forward pass is run without looking at x.
ResolvePrediction_Unchecked(x, y_pred) ==
    IF y_pred.kind = "None"
    THEN MRNN_predict(x)
    ELSE [status |-> "return", pred |-> y_pred, events |-> <<>>]

\* Mutation: x takes precedence over a supplied y_pred.
ResolvePrediction_PreferX(x, y_pred) ==
    IF x # None
    THEN MRNN_predict(x)
    ELSE IF y_pred.kind = "None"
    THEN [status |-> "ValueError", pred |-> PyNone, events |-> <<>>]
    ELSE [status |-> "return", pred |-> y_pred, events |-> <<>>]

\* The opening block of every query method:
\*   if y_pred is None: (if x is None: raise ValueError); y_pred = predict(x)
ResolvePrediction(x, y_pred) ==
    IF y_pred.kind = "None"
    THEN IF x = None
         THEN [status |-> "ValueError", pred |-> PyNone, events |-> <<>>]
         ELSE MRNN_predict(x)
    ELSE [status |-> "return", pred |-> y_pred, events |-> <<>>]

KeyInLosses(key) == key # None /\ key \subseteq DOMAIN losses

LossAt(key) == losses[CHOOSE k \in key : TRUE]

\* Single output, no capability check:  return self.losses[key].<m>(y_pred, ...)
SingleUnguarded(m, r, key, arg) ==
    IF ~KeyInLosses(key)
    THEN Outcome("KeyError", r.pred, NoRet, r.events)
    ELSE LET q == CallQuery(LossAt(key), m, r.pred.t, PyNone, arg)
         IN Outcome(q.status, r.pred,
                    IF q.status = "return" THEN RetValue(q.v) ELSE NoRet,
                    r.events)

\* Mutation: a missing key gives None (losses.get(key)) instead of KeyError.
SingleGuarded_MissingKeyNone(m, r, key, y_true, arg) ==
    IF ~KeyInLosses(key) \/ ~hasattr(LossAt(key), m)
    THEN Outcome("return", r.pred, RetNone, r.events)
    ELSE LET q == CallQuery(LossAt(key), m, r.pred.t, y_true, arg)
         IN Outcome(q.status, r.pred,
                    IF q.status = "return" THEN RetValue(q.v) ELSE NoRet,
                    r.events)

\* Single output with capability check:
\*   loss = self.losses[key]; if hasattr(loss, m): return loss.<m>(...)
\*   return None
SingleGuarded(m, r, key, y_true, arg) ==
    IF ~KeyInLosses(key)
    THEN Outcome("KeyError", r.pred, NoRet, r.events)
    ELSE IF ~hasattr(LossAt(key), m)
    THEN Outcome("return", r.pred, RetNone, r.events)
    ELSE LET q == CallQuery(LossAt(key), m, r.pred.t, y_true, arg)
         IN Outcome(q.status, r.pred,
                    IF q.status = "return" THEN RetValue(q.v) ELSE NoRet,
                    r.events)

\* Mutation: truths are paired with predictions by position, not by key.
TruthAt_FirstItem(y_true, k) ==
    IF y_true.kind = "dict"
    THEN [status |-> "return", v |-> PyTensor(y_true.items[1].v)]
    ELSE [status |-> "IndexError", v |-> PyNone]

\* y_true[k] of MRNN.crps' loop.
TruthAt(y_true, k) ==
    IF y_true.kind = "dict"
    THEN IF HasKey(y_true.items, k)
         THEN [status |-> "return", v |-> PyTensor(GetItem(y_true.items, k))]
         ELSE [status |-> "KeyError", v |-> PyNone]
    ELSE [status |-> "IndexError", v |-> PyNone]

\* The loop of every query method:
\*   for k in y_pred: loss = self.losses[k]
\*       if hasattr(loss, m): results[k] = loss.<m>(y_pred[k], ...)
RECURSIVE fan_out(_, _, _, _, _, _)
fan_out(m, items, i, y_true, arg, acc) ==
    IF i > Len(items)
    THEN [status |-> "return", ret |-> RetDict(acc)]
    ELSE LET k == items[i].k
         IN IF k \notin DOMAIN losses
            THEN [status |-> "KeyError", ret |-> NoRet]
            ELSE IF ~hasattr(losses[k], m)
            THEN fan_out(m, items, i + 1, y_true, arg, acc)
            ELSE LET yt == IF m = "crps" THEN TruthAt(y_true, k)
                           ELSE [status |-> "return", v |-> PyNone]
                     q == CallQuery(losses[k], m, items[i].v, yt.v, arg)
                 IN IF yt.status # "return"
                    THEN [status |-> yt.status, ret |-> NoRet]
                    ELSE IF q.status # "return"
                    THEN [status |-> q.status, ret |-> NoRet]
                    ELSE fan_out(m, items, i + 1, y_true, arg,
                                 Append(acc, Item(k, q.v)))

\* Mutation: prediction keys without a target are skipped.
FanOut_SkipUnknown(m, r, y_true, arg) ==
    LET known(it) == it.k \in DOMAIN losses
        f == fan_out(m, SelectSeq(r.pred.items, known), 1, y_true, arg, <<>>)
    IN Outcome(f.status, r.pred, f.ret, r.events)

FanOut(m, r, y_true, arg) ==
    LET f == fan_out(m, r.pred.items, 1, y_true, arg, <<>>)
    IN Outcome(f.status, r.pred, f.ret, r.events)

Failed(r) == Outcome(r.status, r.pred, NoRet, r.events)

UsageError(r) == Outcome("ValueError", r.pred, NoRet, r.events)

MRNN_cdf(x, y_pred, key) ==
    LET r == ResolvePrediction(x, y_pred)
    IN IF r.status # "return" THEN Failed(r)
       ELSE IF r.pred.kind # "dict"
       THEN SingleUnguarded("cdf", r, key, None)
       ELSE FanOut("cdf", r, PyNone, None)

MRNN_pdf(x, y_pred, key) ==
    LET r == ResolvePrediction(x, y_pred)
    IN IF r.status # "return" THEN Failed(r)
       ELSE IF r.pred.kind # "dict"
       THEN SingleUnguarded("pdf", r, key, None)
       ELSE FanOut("pdf", r, PyNone, None)

MRNN_sample_posterior(x, y_pred, n_samples, key) ==
    LET r == ResolvePrediction(x, y_pred)
    IN IF r.status # "return" THEN Failed(r)
       ELSE IF r.pred.kind # "dict"
       THEN SingleUnguarded("sample_posterior", r, key, {<<n_samples>>})
       ELSE FanOut("sample_posterior", r, PyNone, {<<n_samples>>})

MRNN_sample_posterior_gaussian_fit(x, y_pred, n_samples, key) ==
    LET r == ResolvePrediction(x, y_pred)
    IN IF r.status # "return" THEN Failed(r)
       ELSE IF r.pred.kind # "dict"
       THEN SingleUnguarded("sample_posterior_gaussian_fit", r, key,
                            {<<n_samples>>})
       ELSE FanOut("sample_posterior_gaussian_fit", r, PyNone,
                   {<<n_samples>>})

MRNN_posterior_mean(x, y_pred, key) ==
    LET r == ResolvePrediction(x, y_pred)
    IN IF r.status # "return" THEN Failed(r)
       ELSE IF r.pred.kind # "dict"
       THEN SingleUnguarded("posterior_mean", r, key, None)
       ELSE FanOut("posterior_mean", r, PyNone, None)

MRNN_crps(x, y_pred, y_true, key) ==
    LET r == ResolvePrediction(x, y_pred)
    IN IF r.status # "return" THEN Failed(r)
       ELSE IF y_true.kind = "None" THEN UsageError(r)
       ELSE IF r.pred.kind # "dict"
       THEN SingleGuarded("crps", r, key, y_true, None)
       ELSE FanOut("crps", r, y_true, None)

MRNN_probability_larger_than(x, y, y_pred, key) ==
    LET r == ResolvePrediction(x, y_pred)
    IN IF r.status # "return" THEN Failed(r)
       ELSE IF y = None THEN UsageError(r)
       ELSE IF r.pred.kind # "dict"
       THEN SingleGuarded("probability_larger_than", r, key, PyNone, y)
       ELSE FanOut("probability_larger_than", r, PyNone, y)

\* No check of y here: it is handed on as it is.
MRNN_probability_less_than(x, y, y_pred, key) ==
    LET r == ResolvePrediction(x, y_pred)
    IN IF r.status # "return" THEN Failed(r)
       ELSE IF r.pred.kind # "dict"
       THEN SingleGuarded("probability_less_than", r, key, PyNone, y)
       ELSE FanOut("probability_less_than", r, PyNone, y)

MRNN_posterior_quantiles(x, y_pred, quantiles, key) ==
    LET r == ResolvePrediction(x, y_pred)
    IN IF r.status # "return" THEN Failed(r)
       ELSE IF quantiles = None THEN UsageError(r)
       ELSE IF r.pred.kind # "dict"
       THEN SingleGuarded("posterior_quantiles", r, key, PyNone, quantiles)
       ELSE FanOut("posterior_quantiles", r, PyNone, quantiles)

\* The loop of MRNN._post_process_prediction:
\*   for k in y_pred: loss = self.losses[k]
\*       if hasattr(loss, "_post_process_prediction"):
\*           results[k] = loss._post_process_prediction(y_pred, bins=bins,
\*                                                      key=key)
RECURSIVE post_process_items(_, _, _, _, _, _)
post_process_items(y_pred, i, bins, key, accepted, acc) ==
    IF i > Len(y_pred.items)
    THEN [status |-> "return", pred |-> PyDict(acc)]
    ELSE LET k == y_pred.items[i].k
         IN IF k \notin DOMAIN losses
            THEN [status |-> "KeyError", pred |-> PyNone]
            ELSE IF ~hasattr(losses[k], "_post_process_prediction")
            THEN post_process_items(y_pred, i + 1, bins, key, accepted, acc)
            ELSE LET p == Density_post_process_prediction(
                              losses[k], y_pred, bins, key, accepted)
                 IN IF p.status # "return"
                    THEN [status |-> p.status, pred |-> PyNone]
                    ELSE post_process_items(y_pred, i + 1, bins, key,
                                            accepted, Append(acc, Item(k, p.t)))

\* The single-output branch of MRNN._post_process_prediction.
post_process_single(y_pred, bins, key, accepted) ==
    IF ~KeyInLosses(key)
    THEN [status |-> "KeyError", pred |-> PyNone]
    ELSE IF hasattr(LossAt(key), "_post_process_prediction")
    THEN LET p == Density_post_process_prediction(
                      LossAt(key), y_pred, bins, key, accepted)
         IN [status |-> p.status,
             pred |-> IF p.status = "return" THEN PyTensor(p.t) ELSE PyNone]
    ELSE [status |-> "return", pred |-> y_pred]

\* Mutation: each representation gets its own slice and its own key.
MRNN_post_process_prediction_PerKey(y_pred, bins, key, accepted) ==
    LET per(it) == post_process_single(PyTensor(it.v), bins, {it.k}, accepted)
        able(it) == it.k \in DOMAIN losses =>
                        hasattr(losses[it.k], "_post_process_prediction")
        items == IF y_pred.kind = "dict" THEN SelectSeq(y_pred.items, able)
                 ELSE <<>>
        bad == {j \in DOMAIN items : per(items[j]).status # "return"}
        r == IF y_pred.kind # "dict"
             THEN post_process_single(y_pred, bins, key, accepted)
             ELSE IF bad # {}
             THEN [status |-> per(items[CHOOSE j \in bad : TRUE]).status,
                   pred |-> PyNone]
             ELSE [status |-> "return",
                   pred |-> PyDict([j \in DOMAIN items |->
                                       Item(items[j].k, per(items[j]).pred.t)])]
    IN Outcome(r.status, r.pred, NoRet, <<>>)

\* MRNN._post_process_prediction(y_pred, bins, key)
MRNN_post_process_prediction(y_pred, bins, key, accepted) ==
    LET r == IF y_pred.kind # "dict"
             THEN post_process_single(y_pred, bins, key, accepted)
             ELSE post_process_items(y_pred, 1, bins, key, accepted, <<>>)
    IN Outcome(r.status, r.pred, NoRet, <<>>)

(***************************************************************************)
(* Direct use of one target representation on numeric data                 *)
(*                                                                         *)
(* The prediction is a vector along axis 1, held as exact fractions         *)
(* <<numerator, denominator>>. Quantile fractions are given in percent.     *)
(* The logits of a Density prediction are given by their exponentials       *)
(* (logit 0 is 1), which keeps softmax exact.                               *)
(***************************************************************************)
Abs(n) == IF n < 0 THEN -n ELSE n

RECURSIVE GCD(_, _)
GCD(a, b) == IF b = 0 THEN a ELSE GCD(b, a % b)

Rat(n, d) ==
    LET sgn == IF d < 0 THEN -1 ELSE 1
        g == GCD(Abs(n), Abs(d))
    IN <<(sgn * n) \div g, (sgn * d) \div g>>

RAdd(a, b) == Rat(a[1] * b[2] + b[1] * a[2], a[2] * b[2])

RSub(a, b) == Rat(a[1] * b[2] - b[1] * a[2], a[2] * b[2])

RMul(a, b) == Rat(a[1] * b[1], a[2] * b[2])

RDiv(a, b) == Rat(a[1] * b[2], a[2] * b[1])

RLess(a, b) == a[1] * b[2] < b[1] * a[2]

RLeq(a, b) == a[1] * b[2] <= b[1] * a[2]

Zero == Rat(0, 1)

One == Rat(1, 1)

\* to_array: a Python sequence of numbers as an array of the backend.
to_array(xs) == [i \in DOMAIN xs |-> Rat(xs[i], 1)]

Percent(xs) == [i \in DOMAIN xs |-> Rat(xs[i], 100)]

RECURSIVE RSum(_, _)
RSum(xs, n) == IF n = 0 THEN Zero ELSE RAdd(RSum(xs, n - 1), xs[n])

\* A library call's numeric result: one or two arrays, or an exception.
Value(xs, ys) == [status |-> "return", xs |-> xs, ys |-> ys]

Error(e) == [status |-> e, xs |-> <<>>, ys |-> <<>>]

NoValue == Error("-")

\* quantnn.generic.softmax along the axis.
softmax(ws) ==
    LET total == RSum(ws, Len(ws))
    IN [i \in DOMAIN ws |-> RDiv(ws[i], total)]

\* quantnn.density.normalize: probability mass per bin -> density (mass / width).
qd_normalize(pmf, bins) ==
    IF bins = None THEN Error("TypeError")
    ELSE LET b == CHOOSE b \in bins : TRUE
         IN IF b.kind # "array" \/ Len(b.edges) # Len(pmf) + 1
            THEN Error("ValueError")
            ELSE Value([i \in DOMAIN pmf |->
                           RDiv(pmf[i], Rat(b.edges[i + 1] - b.edges[i], 1))],
                       <<>>)

\* The numeric content of a tensor: the operations recorded on it, applied in
\* order to the data it starts from.
RECURSIVE TensorValue(_, _, _)
TensorValue(t, data, n) ==
    IF n = 0 THEN Value(to_array(data), <<>>)
    ELSE LET before == TensorValue(t, data, n - 1)
             o == t.ops[n]
         IN IF before.status # "return" THEN before
            ELSE CASE o.op = "softmax" -> Value(softmax(before.xs), <<>>)
                   [] o.op = "normalize" -> qd_normalize(before.xs, o.param)

\* The piecewise-linear function through (xs[i], cs[i]), flat beyond the end
\* points, evaluated at y.
Interpolate(xs, cs, y) ==
    IF RLeq(y, xs[1]) THEN cs[1]
    ELSE IF RLeq(xs[Len(xs)], y) THEN cs[Len(cs)]
    ELSE LET i == CHOOSE i \in 1..(Len(xs) - 1) :
                      /\ RLeq(xs[i], y) /\ RLess(y, xs[i + 1])
                      /\ \A j \in (i + 1)..(Len(xs) - 1) :
                             ~(RLeq(xs[j], y) /\ RLess(y, xs[j + 1]))
         IN RAdd(cs[i],
                 RMul(RSub(cs[i + 1], cs[i]),
                      RDiv(RSub(y, xs[i]), RSub(xs[i + 1], xs[i]))))

\* Inverse of the piecewise-linear CDF: the bracketing segment of tau in the
\* ordinates, interpolated linearly in the abscissae.
InverseInterpolate(xs, cs, tau) ==
    IF RLeq(tau, cs[1]) THEN xs[1]
    ELSE IF RLeq(cs[Len(cs)], tau) THEN xs[Len(xs)]
    ELSE LET i == CHOOSE i \in 1..(Len(cs) - 1) :
                      /\ RLess(cs[i], tau) /\ RLeq(tau, cs[i + 1])
                      /\ \A j \in 1..(i - 1) :
                             ~(RLess(cs[j], tau) /\ RLeq(tau, cs[j + 1]))
         IN RAdd(xs[i],
                 RMul(RSub(xs[i + 1], xs[i]),
                      RDiv(RSub(tau, cs[i]), RSub(cs[i + 1], cs[i]))))

\* quantnn.quantiles.cdf: the k predicted values extended by the two
\* extrapolated end points, against {0, tau_1, ..., tau_k, 1}.
qq_cdf(y, quantiles) ==
    LET k == Len(y)
        two == Rat(2, 1)
    IN IF k < 2 THEN Error("DomainError")
       ELSE IF Len(quantiles) # k THEN Error("ValueError")
       ELSE Value(<<RSub(RMul(two, y[1]), y[2])>> \o y
                      \o <<RSub(RMul(two, y[k]), y[k - 1])>>,
                  <<Zero>> \o quantiles \o <<One>>)

qq_probability_less_than(y_pred, quantiles, y) ==
    LET c == qq_cdf(y_pred, quantiles)
    IN IF c.status # "return" THEN c
       ELSE Value(<<Interpolate(c.xs, c.ys, y)>>, <<>>)

qq_probability_larger_than(y_pred, quantiles, y) ==
    LET c == qq_cdf(y_pred, quantiles)
    IN IF c.status # "return" THEN c
       ELSE Value(<<RSub(One, Interpolate(c.xs, c.ys, y))>>, <<>>)

qq_posterior_quantiles(y_pred, quantiles, new_quantiles) ==
    LET c == qq_cdf(y_pred, quantiles)
    IN IF c.status # "return" THEN c
       ELSE Value([i \in DOMAIN new_quantiles |->
                      InverseInterpolate(c.xs, c.ys, new_quantiles[i])],
                  <<>>)

\* quantnn.density.cdf: cumulative sum of the bin masses at the bin edges.
qd_cdf(pdf, edges) ==
    IF Len(edges) # Len(pdf) + 1 THEN Error("ValueError")
    ELSE LET mass == [i \in DOMAIN pdf |->
                         RMul(pdf[i], Rat(edges[i + 1] - edges[i], 1))]
         IN Value(to_array(edges),
                  [i \in DOMAIN edges |-> RSum(mass, i - 1)])

qd_probability_less_than(pdf, edges, y) ==
    LET c == qd_cdf(pdf, edges)
    IN IF c.status # "return" THEN c
       ELSE Value(<<Interpolate(c.xs, c.ys, y)>>, <<>>)

qd_probability_larger_than(pdf, edges, y) ==
    LET c == qd_cdf(pdf, edges)
    IN IF c.status # "return" THEN c
       ELSE Value(<<RSub(One, Interpolate(c.xs, c.ys, y))>>, <<>>)

\* The library function a term names, evaluated on the term's arguments.
Library(term, data) ==
    LET p == TensorValue(term.y_pred, data, Len(term.y_pred.ops))
        fn == term.fn
        given == term.param # None
        par == CHOOSE v \in term.param : TRUE
        arg == CHOOSE v \in term.arg : TRUE
    IN IF p.status # "return" THEN p
       ELSE IF term.lib = "self" THEN p
       ELSE IF ~given THEN Error("TypeError")
       ELSE IF term.lib = "qq"
       THEN CASE fn = "cdf" -> qq_cdf(p.xs, Percent(par))
              [] fn = "posterior_quantiles" ->
                    qq_posterior_quantiles(p.xs, Percent(par), Percent(arg))
              [] fn = "probability_less_than" ->
                    qq_probability_less_than(p.xs, Percent(par),
                                             Rat(arg[1], 1))
              [] fn = "probability_larger_than" ->
                    qq_probability_larger_than(p.xs, Percent(par),
                                               Rat(arg[1], 1))
       ELSE IF par.kind # "array" THEN Error("ValueError")
       ELSE CASE fn = "cdf" -> qd_cdf(p.xs, par.edges)
              [] fn = "probability_less_than" ->
                    qd_probability_less_than(p.xs, par.edges, Rat(arg[1], 1))
              [] fn = "probability_larger_than" ->
                    qd_probability_larger_than(p.xs, par.edges,
                                               Rat(arg[1], 1))

EngineCall(op, data, arg, first, second) ==
    [op |-> op, data |-> data, arg |-> arg, first |-> first,
     second |-> second]

NoEngineCall == EngineCall("-", <<>>, None, NoValue, NoValue)

\* y_pred = predict(x), then the representation's method on it, as the query
\* methods of MRNN do when given x; data is what the model put out for x.
Evaluate(target, m, data, arg) ==
    LET p == CallPredict(target, ModelTensor("a"))
        q == CallQuery(target, m, p.t, PyNone, arg)
    IN IF p.status # "return" THEN Error(p.status)
       ELSE IF q.status # "return" THEN Error(q.status)
       ELSE Library(q.v, data)

EvaluatePredict(target, data) ==
    LET p == CallPredict(target, ModelTensor("a"))
    IN IF p.status # "return" THEN Error(p.status)
       ELSE TensorValue(p.t, data, Len(p.t.ops))

(***************************************************************************)
(* The loss functions of the backend (quantnn/models/pytorch/common.py),   *)
(* their construction by the target representations, and MRNN.train.       *)
(* A mask is None or {m}; batches hold exact fractions.                     *)
(***************************************************************************)
\* Python's binding of a call's arguments to the parameters after self: the
\* call is a TypeError if there are too many positional arguments, if a
\* keyword names no parameter or one already bound by position, or if one of
\* the first `required` parameters stays unbound.
Bound(params, required, positional, keywords) ==
    /\ Len(positional) <= Len(params)
    /\ \A n \in DOMAIN keywords :
           \E i \in (Len(positional) + 1)..Len(params) : params[i] = n
    /\ \A i \in 1..required :
           i <= Len(positional) \/ params[i] \in DOMAIN keywords

ArgOf(params, positional, keywords, name, default) ==
    LET i == CHOOSE j \in DOMAIN params : params[j] = name
    IN IF i <= Len(positional) THEN positional[i]
       ELSE IF name \in DOMAIN keywords THEN keywords[name]
       ELSE default

\* `if v:` for None or a number.
Truthy(v) == v # None /\ v # {0}

LossObject(cls, quantiles, mask, quantile_axis, reduction) ==
    [cls |-> cls, quantiles |-> quantiles, mask |-> mask,
     quantile_axis |-> quantile_axis, reduction |-> reduction]

NoLoss == LossObject("-", None, None, None, None)

Constructed(obj) == [status |-> "return", v |-> obj]

NotConstructed(e) == [status |-> e, v |-> NoLoss]

\* QuantileLoss.__init__(self, quantiles, mask=None, quantile_axis=1); the
\* conversion of a truthy mask to float32 keeps its value.
QuantileLoss_init(positional, keywords) ==
    LET params == <<"quantiles", "mask", "quantile_axis">>
        arg(n, d) == ArgOf(params, positional, keywords, n, d)
    IN IF ~Bound(params, 1, positional, keywords)
       THEN NotConstructed("TypeError")
       ELSE Constructed(LossObject("QuantileLoss", arg("quantiles", None),
                                   arg("mask", None),
                                   arg("quantile_axis", {1}), None))

\* CrossEntropyLoss.__init__(self, mask=None)
CrossEntropyLoss_init(positional, keywords) ==
    LET params == <<"mask">>
        mask == ArgOf(params, positional, keywords, "mask", None)
    IN IF ~Bound(params, 0, positional, keywords)
       THEN NotConstructed("TypeError")
       ELSE Constructed(LossObject("CrossEntropyLoss", None, mask, None,
                                   IF mask = None THEN {"mean"}
                                   ELSE {"none"}))

\* The backend's mean-squared-error loss, constructed with an optional mask.
MSELoss_init(positional, keywords) ==
    LET params == <<"mask">>
    IN IF ~Bound(params, 0, positional, keywords)
       THEN NotConstructed("TypeError")
       ELSE Constructed(LossObject("MSELoss", None,
                                   ArgOf(params, positional, keywords,
                                         "mask", None), None, None))

Quantiles_get_loss(self, mask) ==
    QuantileLoss_init(<<self.quantiles>>, [mask |-> mask])

Density_get_loss(self, mask) ==
    CrossEntropyLoss_init(<<self.bins>>, [mask |-> mask])

Mean_get_loss(self, mask) == MSELoss_init(<<>>, [mask |-> mask])

\* l.get_loss(backend, mask=mask)
get_loss(l, mask) ==
    CASE l.cls = "Quantiles" -> Quantiles_get_loss(l, mask)
      [] l.cls = "Density" -> Density_get_loss(l, mask)
      [] OTHER -> Mean_get_loss(l, mask)

\* {k: l.get_loss(backend, mask=mask) for k, l in losses.items()}
BuildLosses(L, mask) ==
    LET built == [k \in DOMAIN L |-> get_loss(L[k], mask)]
        failed == {k \in DOMAIN L : built[k].status # "return"}
    IN IF failed # {}
       THEN [status |-> built[CHOOSE k \in failed : TRUE].status,
             loss |-> <<>>]
       ELSE [status |-> "return", loss |-> [k \in DOMAIN L |-> built[k].v]]

\* The value of a loss on symbolic data.
LossTerm(obj, y_pred, y_true) ==
    [kind |-> "term", loss |-> obj, y_pred |-> y_pred, y_true |-> y_true]

Number(r) == [kind |-> "number", v |-> r]

NaN == [kind |-> "nan", v |-> Zero]

NoResult == [kind |-> "-", v |-> Zero]

Evaluated(v) == [status |-> "return", v |-> v]

NotEvaluated(e) == [status |-> e, v |-> NoResult]

\* The call of a loss object: QuantileLoss.__call__(self, y_pred, y_true) and
\* CrossEntropyLoss.__call__(self, y_pred, y_true) take two arguments. The
\* mean-squared-error loss takes the two tensors; `lenient` says whether it
\* tolerates a third argument.
LossCall(obj, args, lenient) ==
    IF Len(args) = 2 \/ (obj.cls = "MSELoss" /\ lenient /\ Len(args) = 3)
    THEN Evaluated(LossTerm(obj, args[1], args[2]))
    ELSE NotEvaluated("TypeError")

\* MixedLoss.__init__(self, backend, losses)
MixedLoss_init(L) == BuildLosses(L, None)

\* MixedLoss.__call__(self, y_pred, y_true, key)
MixedLoss_call(self, y_pred, y_true, key, lenient) ==
    IF key \notin DOMAIN self THEN NotEvaluated("KeyError")
    ELSE LossCall(self[key], <<y_pred, y_true, key>>, lenient)

\* The pinball loss of one predicted quantile: (1 - q) dy where dy >= 0 and
\* -q dy elsewhere, with dy = y_pred - y_true.
Pinball(q, y_pred, y_true) ==
    LET dy == RSub(y_pred, y_true)
    IN IF RLeq(Zero, dy) THEN RMul(RSub(One, q), dy)
       ELSE RMul(RSub(Zero, q), dy)

\* (l * mask).sum(): the pinball losses of the samples in `rows`, summed.
PinballSum(qs, y_pred, y_true, rows) ==
    LET row(i) == RSum([j \in DOMAIN qs |->
                           Pinball(qs[j], y_pred[i][j], y_true[i])], Len(qs))
        per == [i \in DOMAIN y_true |-> IF i \in rows THEN row(i) ELSE Zero]
    IN RSum(per, Len(y_true))

\* QuantileLoss.__call__(self, y_pred, y_true) on a batch: y_pred[i] are the
\* predicted quantiles of sample i (the quantile axis is 1), y_true[i] its
\* target value.
QuantileLoss_call(self, y_pred, y_true) ==
    LET qs == Percent(CHOOSE q \in self.quantiles : TRUE)
        m == CHOOSE v \in self.mask : TRUE
        kept == {i \in DOMAIN y_true : RLess(Rat(m, 1), y_true[i])}
    IN IF Truthy(self.mask)
       THEN IF kept = {} THEN Evaluated(NaN)
            ELSE Evaluated(Number(
                     RDiv(PinballSum(qs, y_pred, y_true, kept),
                          Rat(Cardinality(kept) * Len(qs), 1))))
       ELSE Evaluated(Number(
                RDiv(PinballSum(qs, y_pred, y_true, DOMAIN y_true),
                     Rat(Len(y_true) * Len(qs), 1))))

\* What the latest use of the loss functions was and what it gave.
Criterion(op, status, loss, mask, key, y_pred, y_true, value) ==
    [op |-> op, status |-> status, loss |-> loss, mask |-> mask,
     key |-> key, y_pred |-> y_pred, y_true |-> y_true, value |-> value]

NoCriterion == Criterion("-", "-", <<>>, None, None, <<>>, <<>>, NoResult)

\* MRNN.train(training_data, ..., mask=mask) up to the call of the
\* superclass's train with the losses and self.transformation.
MRNN_train(mask) ==
    LET b == BuildLosses(losses, mask)
    IN IF b.status # "return"
       THEN Criterion("MRNN.train", b.status, <<>>, mask, None, <<>>, <<>>,
                      NoResult)
       ELSE IF transformation = Missing
       THEN Criterion("MRNN.train", "AttributeError", <<>>, mask, None,
                      <<>>, <<>>, NoResult)
       ELSE Criterion("MRNN.train", "return", b.loss, mask, None, <<>>, <<>>,
                      NoResult)

(***************************************************************************)
(* PytorchModel: wrapping a torch module and training it. Errors of an      *)
(* epoch are named by the training run and the epoch they belong to.        *)
(***************************************************************************)
\* The modules of a model: the model itself and a submodule.
Modules == {"self", "child"}

Err(kind, run, epoch) == [kind |-> kind, run |-> run, epoch |-> epoch]

\* A call of PytorchModel.train in progress: where it is, its arguments and
\* its local variables.
Run(pc, i, n_epochs, training_data, validation_data, scheduler, training_errors, validation_errors, state, steps) ==
    [pc |-> pc, i |-> i, n_epochs |-> n_epochs,
     training_data |-> training_data, validation_data |-> validation_data,
     scheduler |-> scheduler, training_errors |-> training_errors,
     validation_errors |-> validation_errors, state |-> state,
     steps |-> steps]

NoRun ==
    Run("idle", 0, 0, "-", "-", "-", <<>>, <<>>, [m \in Modules |-> TRUE],
        <<>>)

NetResult(op, status, ret) == [op |-> op, status |-> status, ret |-> ret]

NoNetResult == NetResult("-", "-", None)

\* An object handed to the backend: its identity, whether it is a torch
\* module, whether it has been given the PytorchModel class, its error
\* lists, the training flag of each module, the number of training runs so
\* far, the run in progress and what the latest call gave.
Net(kind, wrapped, training_errors, validation_errors, training, runs, run, result) ==
    [id |-> "model", kind |-> kind, wrapped |-> wrapped,
     training_errors |-> training_errors,
     validation_errors |-> validation_errors, training |-> training,
     runs |-> runs, run |-> run, result |-> result]

NoNet ==
    Net("-", FALSE, <<>>, <<>>, [m \in Modules |-> TRUE], 0, NoRun,
        NoNetResult)

\* PytorchModel.__init__(self)
PytorchModel_init(self) ==
    [self EXCEPT !.training_errors = <<>>, !.validation_errors = <<>>]

\* Mutation: an already wrapped model is initialised again.
PytorchModel_create_Reinitialised(model) ==
    IF model.kind # "module"
    THEN [model EXCEPT !.result = NetResult("create", "ModelNotSupported",
                                            None)]
    ELSE [PytorchModel_init(model) EXCEPT
              !.wrapped = TRUE,
              !.result = NetResult("create", "return", {model.id})]

\* PytorchModel.create(model)
PytorchModel_create(model) ==
    IF model.kind # "module"
    THEN [model EXCEPT !.result = NetResult("create", "ModelNotSupported",
                                            None)]
    ELSE IF model.wrapped
    THEN [model EXCEPT !.result = NetResult("create", "return", {model.id})]
    ELSE [PytorchModel_init(model) EXCEPT
              !.wrapped = TRUE,
              !.result = NetResult("create", "return", {model.id})]

\* nn.Module.train(self, mode), which eval() calls with False: the flag of
\* the module and of its submodules.
Module_train(self, mode) ==
    [self EXCEPT !.training = [m \in Modules |-> mode]]

\* _get_default_scheduler is ReduceLROnPlateau, whose step takes a metric;
\* a scheduler is "epoch" if its step has one parameter and "metric" if not.
SchedulerUsed(scheduler) ==
    IF scheduler = None THEN "metric" ELSE CHOOSE k \in scheduler : TRUE

\* The call ends: with an exception the local lists are lost.
Raise(self, e) ==
    [self EXCEPT !.run = [@ EXCEPT !.pc = "done"],
                 !.result = NetResult("train", e, None)]

\* PytorchModel.train up to the training loop.
train_begin(self, training_data, validation_data, loss, scheduler, n_epochs) ==
    LET started == [self EXCEPT !.runs = @ + 1]
        run == Run(IF n_epochs = 0 THEN "return" ELSE "epoch", 0, n_epochs,
                   training_data, validation_data, SchedulerUsed(scheduler),
                   <<>>, <<>>, self.training, <<>>)
    IN IF loss = None
       THEN [Raise(started, "AttributeError") EXCEPT
                 !.run = [run EXCEPT !.pc = "done"]]
       ELSE [started EXCEPT !.run = run]

\* The training batches of one epoch and training_errors.append(error / n).
train_epoch(self) ==
    LET r == self.run
    IN IF r.training_data = "empty" THEN Raise(self, "ZeroDivisionError")
       ELSE [self EXCEPT
                 !.run = [r EXCEPT
                              !.pc = IF r.validation_data = "none"
                                     THEN "no validation" ELSE "validate",
                              !.training_errors =
                                  Append(@, Err("train", self.runs,
                                                r.i + 1))]]

\* self.eval() before the validation batches.
validation_begin(self) ==
    [Module_train(self, FALSE) EXCEPT !.run = [@ EXCEPT !.pc = "validating"]]

NextEpoch(r) ==
    [r EXCEPT !.i = @ + 1,
              !.pc = IF r.i + 1 < r.n_epochs THEN "epoch" ELSE "return"]

Stepped(r, metric) ==
    [r EXCEPT !.steps = Append(@, [epoch |-> r.i + 1, metric |-> metric])]

\* Mutation: the training flags stay as eval() left them.
validation_end_NotRestored(self) ==
    LET r == self.run
        appended == [r EXCEPT !.validation_errors =
                                  Append(@, Err("validation", self.runs,
                                                r.i + 1))]
    IN IF r.validation_data = "empty" THEN Raise(self, "ZeroDivisionError")
       ELSE [self EXCEPT
                 !.run = NextEpoch(
                             IF r.scheduler = "epoch"
                             THEN Stepped(appended, None)
                             ELSE Stepped(appended,
                                          {Err("validation", self.runs,
                                               r.i + 1)}))]

\* The validation batches, validation_errors.append(validation_error / n),
\* the training flags put back, and the scheduler's step.
validation_end(self) ==
    LET r == self.run
        appended == [r EXCEPT !.validation_errors =
                                  Append(@, Err("validation", self.runs,
                                                r.i + 1))]
    IN IF r.validation_data = "empty" THEN Raise(self, "ZeroDivisionError")
       ELSE [self EXCEPT
                 !.training = r.state,
                 !.run = NextEpoch(
                             IF r.scheduler = "epoch"
                             THEN Stepped(appended, None)
                             ELSE Stepped(appended,
                                          {Err("validation", self.runs,
                                               r.i + 1)}))]

\* The branch of an epoch without validation data: a scheduler whose step
\* takes a metric is stepped only `if validation_data:`.
no_validation(self) ==
    LET r == self.run
    IN [self EXCEPT
            !.run = NextEpoch(IF r.scheduler = "epoch" THEN Stepped(r, None)
                              ELSE IF r.validation_data # "none"
                              THEN Stepped(r, {Err("train", self.runs,
                                                   r.i + 1)})
                              ELSE r)]

\* After the loop: the errors of the run are added to the stored ones and
\* the model is put in evaluation mode.
train_return(self) ==
    [Module_train(self, FALSE) EXCEPT
         !.training_errors = @ \o self.run.training_errors,
         !.validation_errors = @ \o self.run.validation_errors,
         !.run = [@ EXCEPT !.pc = "done"],
         !.result = NetResult("train", "return", None)]


(***************************************************************************)
(* Concurrent predict calls                                                *)
(***************************************************************************)
Threads == {1, 2}

Devices == {"cpu", "cuda"}

\* A thread inside MRNN.predict: where it is, the device of its input x, the
\* device the model's parameters were on when its forward pass ran, and what
\* the call gave.
Thread(pc, dev, ran, status) ==
    [pc |-> pc, dev |-> dev, ran |-> ran, status |-> status]

IdleThread == Thread("idle", "-", "-", "-")

(***************************************************************************)
(* State machine: an MRNN after construction, and calls made on it.        *)
(* call / outcome hold the latest call and what it gave, until the caller  *)
(* drops them.                                                             *)
(***************************************************************************)
Representations ==
    {Quantiles_init(QuantileFractions), Mean_init,
     Density_init(BinsMapping(<<[k |-> "a", v |-> BinEdges]>>), None)}
    \cup {Density_init(Bins(BinEdges), ax) : ax \in BinAxisArgs}

LossConfigs == UNION {[D -> Representations] : D \in {{"a"}, {"a", "b"}}}

ModelOutputs ==
    {[kind |-> "tensor", keys |-> <<>>], [kind |-> "dict", keys |-> <<"a">>],
     [kind |-> "dict", keys |-> <<"a", "b">>],
     [kind |-> "dict", keys |-> <<"b", "a">>]}

XArgs == {None, {"x"}}

YPredArgs ==
    {PyNone, PyTensor(CallerTensor("-")),
     DictOf(<<"a">>, "caller"), DictOf(<<"a", "b">>, "caller"),
     DictOf(<<"b", "a">>, "caller")}

KeyArgs == {None} \cup {{k} : k \in Keys}

YTrueArgs ==
    {PyNone, PyTensor(TruthTensor("-")), DictOf(<<"a">>, "y_true"),
     DictOf(<<"a", "b">>, "y_true")}

YArgs == {None, {Threshold}}

QuantilesArgs == {None, {NewQuantiles}}

SampleArgs == 1..MaxSamples

Call(method, x, y_pred, key, n_samples, y_true, y, quantiles) ==
    [method |-> method, x |-> x, y_pred |-> y_pred, key |-> key,
     n_samples |-> n_samples, y_true |-> y_true, y |-> y,
     quantiles |-> quantiles]

NoCall == Call("-", None, PyNone, None, None, PyNone, None, None)

NoOutcome == Outcome("-", PyNone, NoRet, <<>>)

Idle == call.method = "-"

\* MRNN.__init__(losses, model=..., transformation=...)
Init ==
    /\ losses \in LossConfigs
    /\ transformation \in {None, {"T"}}
    /\ modelOut \in ModelOutputs
    /\ call = NoCall
    /\ outcome = NoOutcome
    /\ engine = NoEngineCall
    /\ modelDevice = "cpu"
    /\ threads = [t \in Threads |-> IdleThread]
    /\ criterion = NoCriterion
    /\ net = NoNet

Predict ==
    /\ Idle
    /\ call' = Call("predict", {"x"}, PyNone, None, None, PyNone, None, None)
    /\ outcome' = Failed(MRNN_predict({"x"}))
    /\ UNCHANGED <<losses, transformation, modelOut,
                   engine, modelDevice, threads>>
    /\ UNCHANGED <<criterion, net>>

Cdf ==
    \E x \in XArgs, y_pred \in YPredArgs, key \in KeyArgs :
        /\ Idle
        /\ call' = Call("cdf", x, y_pred, key, None, PyNone, None, None)
        /\ outcome' = MRNN_cdf(x, y_pred, key)
        /\ UNCHANGED <<losses, transformation, modelOut,
                       engine, modelDevice, threads>>
        /\ UNCHANGED <<criterion, net>>

Pdf ==
    \E x \in XArgs, y_pred \in YPredArgs, key \in KeyArgs :
        /\ Idle
        /\ call' = Call("pdf", x, y_pred, key, None, PyNone, None, None)
        /\ outcome' = MRNN_pdf(x, y_pred, key)
        /\ UNCHANGED <<losses, transformation, modelOut,
                       engine, modelDevice, threads>>
        /\ UNCHANGED <<criterion, net>>

SamplePosterior ==
    \E x \in XArgs, y_pred \in YPredArgs, key \in KeyArgs, n \in SampleArgs :
        /\ Idle
        /\ call' = Call("sample_posterior", x, y_pred, key, {n}, PyNone,
                        None, None)
        /\ outcome' = MRNN_sample_posterior(x, y_pred, n, key)
        /\ UNCHANGED <<losses, transformation, modelOut,
                       engine, modelDevice, threads>>
        /\ UNCHANGED <<criterion, net>>

SamplePosteriorGaussianFit ==
    \E x \in XArgs, y_pred \in YPredArgs, key \in KeyArgs, n \in SampleArgs :
        /\ Idle
        /\ call' = Call("sample_posterior_gaussian_fit", x, y_pred, key, {n},
                        PyNone, None, None)
        /\ outcome' = MRNN_sample_posterior_gaussian_fit(x, y_pred, n, key)
        /\ UNCHANGED <<losses, transformation, modelOut,
                       engine, modelDevice, threads>>
        /\ UNCHANGED <<criterion, net>>

PosteriorMean ==
    \E x \in XArgs, y_pred \in YPredArgs, key \in KeyArgs :
        /\ Idle
        /\ call' = Call("posterior_mean", x, y_pred, key, None, PyNone,
                        None, None)
        /\ outcome' = MRNN_posterior_mean(x, y_pred, key)
        /\ UNCHANGED <<losses, transformation, modelOut,
                       engine, modelDevice, threads>>
        /\ UNCHANGED <<criterion, net>>

Crps ==
    \E x \in XArgs, y_pred \in YPredArgs, key \in KeyArgs,
       y_true \in YTrueArgs :
        /\ Idle
        /\ call' = Call("crps", x, y_pred, key, None, y_true, None, None)
        /\ outcome' = MRNN_crps(x, y_pred, y_true, key)
        /\ UNCHANGED <<losses, transformation, modelOut,
                       engine, modelDevice, threads>>
        /\ UNCHANGED <<criterion, net>>

ProbabilityLargerThan ==
    \E x \in XArgs, y_pred \in YPredArgs, key \in KeyArgs, y \in YArgs :
        /\ Idle
        /\ call' = Call("probability_larger_than", x, y_pred, key, None,
                        PyNone, y, None)
        /\ outcome' = MRNN_probability_larger_than(x, y, y_pred, key)
        /\ UNCHANGED <<losses, transformation, modelOut,
                       engine, modelDevice, threads>>
        /\ UNCHANGED <<criterion, net>>

ProbabilityLessThan ==
    \E x \in XArgs, y_pred \in YPredArgs, key \in KeyArgs, y \in YArgs :
        /\ Idle
        /\ call' = Call("probability_less_than", x, y_pred, key, None,
                        PyNone, y, None)
        /\ outcome' = MRNN_probability_less_than(x, y, y_pred, key)
        /\ UNCHANGED <<losses, transformation, modelOut,
                       engine, modelDevice, threads>>
        /\ UNCHANGED <<criterion, net>>

\* Mutation: the quantiles of the call are stored on the Quantiles targets.
PosteriorQuantiles_StoresQuantiles ==
    \E x \in XArgs, y_pred \in YPredArgs, key \in KeyArgs,
       quantiles \in QuantilesArgs :
        /\ Idle
        /\ call' = Call("posterior_quantiles", x, y_pred, key, None, PyNone,
                        None, quantiles)
        /\ outcome' = MRNN_posterior_quantiles(x, y_pred, quantiles, key)
        /\ losses' = [k \in DOMAIN losses |->
                          IF losses[k].cls = "Quantiles" /\ quantiles # None
                          THEN [losses[k] EXCEPT !.quantiles = quantiles]
                          ELSE losses[k]]
        /\ UNCHANGED <<transformation, modelOut, engine, modelDevice,
                       threads>>
        /\ UNCHANGED <<criterion, net>>

PosteriorQuantiles ==
    \E x \in XArgs, y_pred \in YPredArgs, key \in KeyArgs,
       quantiles \in QuantilesArgs :
        /\ Idle
        /\ call' = Call("posterior_quantiles", x, y_pred, key, None, PyNone,
                        None, quantiles)
        /\ outcome' = MRNN_posterior_quantiles(x, y_pred, quantiles, key)
        /\ UNCHANGED <<losses, transformation, modelOut,
                       engine, modelDevice, threads>>
        /\ UNCHANGED <<criterion, net>>

BinsArgs == {None, {Bins(<<0, 1, 3>>)}}

PostProcessCall(y_pred, bins, key) ==
    [method |-> "_post_process_prediction", x |-> None, y_pred |-> y_pred,
     key |-> key, n_samples |-> None, y_true |-> PyNone, y |-> None,
     quantiles |-> None, bins |-> bins]

PostProcessPrediction ==
    \E y_pred \in YPredArgs \ {PyNone}, bins \in BinsArgs, key \in KeyArgs,
       accepted \in BOOLEAN :
        /\ Idle
        /\ call' = PostProcessCall(y_pred, bins, key)
        /\ outcome' = MRNN_post_process_prediction(y_pred, bins, key, accepted)
        /\ UNCHANGED <<losses, transformation, modelOut,
                       engine, modelDevice, threads>>
        /\ UNCHANGED <<criterion, net>>

\* The caller consumes or discards the returned value (or the exception).
Discard ==
    /\ ~Idle
    /\ call' = NoCall
    /\ outcome' = NoOutcome
    /\ UNCHANGED <<losses, transformation, modelOut,
                   engine, modelDevice, threads>>
    /\ UNCHANGED <<criterion, net>>

Next ==
    \/ Predict
    \/ Cdf
    \/ Pdf
    \/ SamplePosterior
    \/ SamplePosteriorGaussianFit
    \/ PosteriorMean
    \/ Crps
    \/ ProbabilityLargerThan
    \/ ProbabilityLessThan
    \/ PosteriorQuantiles
    \/ PostProcessPrediction
    \/ Discard

Spec == Init /\ [][Next]_vars

(***************************************************************************)
(* State machine: one target representation used on numeric predictions.   *)
(***************************************************************************)
MaxValue == 9

MaxWeight == 2

FractionArgs == {<<50>>, <<25, 75>>, QuantileFractions}

EdgeArgs == {BinEdges, <<0, 1, 3>>}

EngineTargets ==
    {Quantiles_init(f) : f \in FractionArgs}
    \cup {Density_init(Bins(e), ax) : e \in EdgeArgs, ax \in BinAxisArgs}

TheTarget == losses["a"]

\* The outputs the model can give for the target: one value per quantile, or
\* one logit (as its exponential) per bin.
DataFor(target) ==
    IF target.cls = "Quantiles"
    THEN LET f == CHOOSE f \in target.quantiles : TRUE
         IN [1..Len(f) -> 0..MaxValue]
    ELSE LET b == CHOOSE b \in target.bins : TRUE
         IN [1..(Len(b.edges) - 1) -> 1..MaxWeight]

ThresholdArgs == {<<y>> : y \in {-3, 1, 2, 5, 20}}

NewQuantilesFor(target) == target.quantiles \cup {NewQuantiles}

EngineIdle == engine.op = "-"

EngineInit ==
    /\ losses \in {[k \in {"a"} |-> T] : T \in EngineTargets}
    /\ transformation = None
    /\ modelOut = [kind |-> "tensor", keys |-> <<>>]
    /\ call = NoCall
    /\ outcome = NoOutcome
    /\ engine = NoEngineCall
    /\ modelDevice = "cpu"
    /\ threads = [t \in Threads |-> IdleThread]
    /\ criterion = NoCriterion
    /\ net = NoNet

EnginePredict ==
    \E data \in DataFor(TheTarget) :
        /\ EngineIdle
        /\ engine' = EngineCall("predict", data, None,
                                EvaluatePredict(TheTarget, data), NoValue)
        /\ UNCHANGED <<losses, transformation, modelOut, call, outcome,
                       modelDevice, threads>>
        /\ UNCHANGED <<criterion, net>>

EngineCdf ==
    \E data \in DataFor(TheTarget) :
        /\ EngineIdle
        /\ engine' = EngineCall("cdf", data, None,
                                Evaluate(TheTarget, "cdf", data, None),
                                NoValue)
        /\ UNCHANGED <<losses, transformation, modelOut, call, outcome,
                       modelDevice, threads>>
        /\ UNCHANGED <<criterion, net>>

EnginePosteriorQuantiles ==
    \E data \in DataFor(TheTarget), q \in NewQuantilesFor(TheTarget) :
        /\ EngineIdle
        /\ TheTarget.cls = "Quantiles"
        /\ engine' = EngineCall("posterior_quantiles", data, {q},
                                Evaluate(TheTarget, "posterior_quantiles",
                                         data, {q}),
                                NoValue)
        /\ UNCHANGED <<losses, transformation, modelOut, call, outcome,
                       modelDevice, threads>>
        /\ UNCHANGED <<criterion, net>>

\* Both exceedance queries on the same prediction and threshold.
EngineProbabilities ==
    \E data \in DataFor(TheTarget), y \in ThresholdArgs :
        /\ EngineIdle
        /\ engine' = EngineCall("probabilities", data, {y},
                                Evaluate(TheTarget, "probability_larger_than",
                                         data, {y}),
                                Evaluate(TheTarget, "probability_less_than",
                                         data, {y}))
        /\ UNCHANGED <<losses, transformation, modelOut, call, outcome,
                       modelDevice, threads>>
        /\ UNCHANGED <<criterion, net>>

\* The caller consumes or discards the result.
EngineDiscard ==
    /\ ~EngineIdle
    /\ engine' = NoEngineCall
    /\ UNCHANGED <<losses, transformation, modelOut, call, outcome,
                   modelDevice, threads>>
    /\ UNCHANGED <<criterion, net>>

EngineNext ==
    \/ EnginePredict
    \/ EngineCdf
    \/ EnginePosteriorQuantiles
    \/ EngineProbabilities
    \/ EngineDiscard

EngineSpec == EngineInit /\ [][EngineNext]_vars

(***************************************************************************)
(* State machine: threads calling MRNN.predict on the same instance, each  *)
(* with a torch tensor x on some device. The steps of a call are those of  *)
(* PytorchModel.predict followed by the post-processing of MRNN.predict.   *)
(***************************************************************************)
ThreadInit ==
    /\ losses \in {[k \in {"a"} |-> T] :
                      T \in {Quantiles_init(QuantileFractions), Mean_init}}
    /\ transformation \in {None, {"T"}}
    /\ modelOut = [kind |-> "dict", keys |-> <<"a">>]
    /\ call = NoCall
    /\ outcome = NoOutcome
    /\ engine = NoEngineCall
    /\ modelDevice \in Devices
    /\ threads = [t \in Threads |-> IdleThread]
    /\ criterion = NoCriterion
    /\ net = NoNet

\* predict(x) is entered: x is a torch.Tensor, so x_torch = x.
Enter(t) ==
    \E dev \in Devices :
        /\ threads[t].pc = "idle"
        /\ threads' = [threads EXCEPT ![t] = Thread("to", dev, "-", "-")]
        /\ UNCHANGED <<losses, transformation, modelOut, call, outcome,
                       engine, modelDevice>>
        /\ UNCHANGED <<criterion, net>>

\* self.to(x_torch.device)
MoveModel(t) ==
    /\ threads[t].pc = "to"
    /\ modelDevice' = threads[t].dev
    /\ threads' = [threads EXCEPT ![t].pc = "forward"]
    /\ UNCHANGED <<losses, transformation, modelOut, call, outcome, engine>>
    /\ UNCHANGED <<criterion, net>>

\* y = self(x_torch): fails when the parameters are on another device than x.
Forward(t) ==
    /\ threads[t].pc = "forward"
    /\ threads' = [threads EXCEPT ![t] =
                      IF modelDevice = threads[t].dev
                      THEN Thread("apply", @.dev, modelDevice, "-")
                      ELSE Thread("done", @.dev, modelDevice, "RuntimeError")]
    /\ UNCHANGED <<losses, transformation, modelOut, call, outcome, engine,
                   modelDevice>>
    /\ UNCHANGED <<criterion, net>>

\* apply(predict, y, self.losses, self.transformation), and the return.
PostProcess(t) ==
    /\ threads[t].pc = "apply"
    /\ threads' = [threads EXCEPT ![t] =
                      Thread("done", @.dev, @.ran,
                             apply(PytorchModel_predict({"x"}), losses,
                                   transformation).status)]
    /\ UNCHANGED <<losses, transformation, modelOut, call, outcome, engine,
                   modelDevice>>
    /\ UNCHANGED <<criterion, net>>

\* The caller takes the result (or the exception).
Leave(t) ==
    /\ threads[t].pc = "done"
    /\ threads' = [threads EXCEPT ![t] = IdleThread]
    /\ UNCHANGED <<losses, transformation, modelOut, call, outcome, engine,
                   modelDevice>>
    /\ UNCHANGED <<criterion, net>>

ThreadNext ==
    \E t \in Threads :
        \/ Enter(t)
        \/ MoveModel(t)
        \/ Forward(t)
        \/ PostProcess(t)
        \/ Leave(t)

ThreadSpec == ThreadInit /\ [][ThreadNext]_vars

(***************************************************************************)
(* State machine: the losses of an MRNN. MRNN.train builds one loss per    *)
(* target and training evaluates them on batches; a MixedLoss is built     *)
(* from the same targets and called with a key.                            *)
(***************************************************************************)
MaxMask == 1

MaxTruth == 2

BatchSize == 2

MaskArgs == {None} \cup {{m} : m \in 0..MaxMask}

PredRows ==
    {[j \in 1..3 |-> Rat(r[j], 1)] : r \in {<<0, 0, 0>>, <<0, 1, 2>>,
                                            <<1, 2, 3>>}}

PredBatches == [1..BatchSize -> PredRows]

TruthBatches == [1..BatchSize -> {Rat(v, 1) : v \in 0..MaxTruth}]

LossIdle == criterion.op = "-"

LossInit ==
    /\ losses \in LossConfigs
    /\ transformation \in {None, {"T"}}
    /\ modelOut = [kind |-> "tensor", keys |-> <<>>]
    /\ call = NoCall
    /\ outcome = NoOutcome
    /\ engine = NoEngineCall
    /\ modelDevice = "cpu"
    /\ threads = [t \in Threads |-> IdleThread]
    /\ criterion = NoCriterion
    /\ net = NoNet

MRNNTrain ==
    \E mask \in MaskArgs :
        /\ LossIdle
        /\ criterion' = MRNN_train(mask)
        /\ UNCHANGED <<losses, transformation, modelOut, call, outcome,
                       engine, modelDevice, threads, net>>

\* One training step: the loss of a Quantiles target on a batch.
EvaluateLoss ==
    \E k \in Keys, y_pred \in PredBatches, y_true \in TruthBatches :
        /\ criterion.op = "MRNN.train"
        /\ criterion.status = "return"
        /\ k \in DOMAIN criterion.loss
        /\ criterion.loss[k].cls = "QuantileLoss"
        /\ LET r == QuantileLoss_call(criterion.loss[k], y_pred, y_true)
           IN criterion' = Criterion("QuantileLoss.__call__", r.status,
                                     criterion.loss, criterion.mask, {k},
                                     y_pred, y_true, r.v)
        /\ UNCHANGED <<losses, transformation, modelOut, call, outcome,
                       engine, modelDevice, threads, net>>

MixedLossConstruct ==
    /\ LossIdle
    /\ LET b == MixedLoss_init(losses)
       IN criterion' = Criterion("MixedLoss", b.status, b.loss, None, None,
                                 <<>>, <<>>, NoResult)
    /\ UNCHANGED <<losses, transformation, modelOut, call, outcome,
                   engine, modelDevice, threads, net>>

MixedLossCall ==
    \E key \in Keys, lenient \in BOOLEAN :
        /\ criterion.op = "MixedLoss"
        /\ criterion.status = "return"
        /\ LET r == MixedLoss_call(criterion.loss, "y_pred", "y_true", key,
                                   lenient)
           IN criterion' = Criterion("MixedLoss.__call__", r.status,
                                     criterion.loss, None, {key}, <<>>, <<>>,
                                     r.v)
        /\ UNCHANGED <<losses, transformation, modelOut, call, outcome,
                       engine, modelDevice, threads, net>>

LossDiscard ==
    /\ ~LossIdle
    /\ criterion' = NoCriterion
    /\ UNCHANGED <<losses, transformation, modelOut, call, outcome,
                   engine, modelDevice, threads, net>>

LossNext ==
    \/ MRNNTrain
    \/ EvaluateLoss
    \/ MixedLossConstruct
    \/ MixedLossCall
    \/ LossDiscard

LossSpec == LossInit /\ [][LossNext]_vars

(***************************************************************************)
(* State machine: an MRNN restored from a serialized state, then used.     *)
(* A state written by an older version has no transformation entry.        *)
(***************************************************************************)
PickledStates ==
    {[losses |-> L, transformation |-> t] :
        L \in LossConfigs, t \in {Missing, None, {"T"}}}

\* The superclass's __setstate__: the instance gets the attributes of the
\* state.
NeuralNetworkModel_setstate(state) ==
    [losses |-> state.losses, transformation |-> state.transformation]

\* Mutation: the restored attributes are left as the superclass set them.
MRNN_setstate_NoDefault(state) == NeuralNetworkModel_setstate(state)

\* MRNN.__setstate__(self, state)
MRNN_setstate(state) ==
    LET self == NeuralNetworkModel_setstate(state)
    IN [self EXCEPT !.transformation = IF @ = Missing THEN None ELSE @]

SetStateCall(state) ==
    [method |-> "__setstate__", x |-> None, y_pred |-> PyNone, key |-> None,
     n_samples |-> None, y_true |-> PyNone, y |-> None, quantiles |-> None,
     state |-> state]

Unrestored == DOMAIN losses = {}

RestoreInit ==
    /\ losses = <<>>
    /\ transformation = Missing
    /\ modelOut \in ModelOutputs
    /\ call = NoCall
    /\ outcome = NoOutcome
    /\ engine = NoEngineCall
    /\ modelDevice = "cpu"
    /\ threads = [t \in Threads |-> IdleThread]
    /\ criterion = NoCriterion
    /\ net = NoNet

SetState ==
    \E state \in PickledStates :
        /\ Unrestored
        /\ Idle
        /\ losses' = MRNN_setstate(state).losses
        /\ transformation' = MRNN_setstate(state).transformation
        /\ call' = SetStateCall(state)
        /\ outcome' = Outcome("return", PyNone, NoRet, <<>>)
        /\ UNCHANGED <<modelOut, engine, modelDevice, threads, criterion,
                       net>>

RestoredPredict == ~Unrestored /\ Predict

RestoredTrain == ~Unrestored /\ MRNNTrain

RestoreNext ==
    \/ SetState
    \/ RestoredPredict
    \/ RestoredTrain
    \/ Discard
    \/ LossDiscard

RestoreSpec == RestoreInit /\ [][RestoreNext]_vars

(***************************************************************************)
(* State machine: an object given to PytorchModel.create, and the wrapped  *)
(* model trained epoch by epoch.                                           *)
(***************************************************************************)
MaxEpochs == 2

MaxRuns == 2

TrainingDataArgs == {"empty", "batches"}

ValidationDataArgs == {"none", "empty", "batches"}

SchedulerArgs == {None, {"epoch"}, {"metric"}}

LossArgs == {None, {"loss"}}

NetIdle == net.run.pc = "idle" /\ net.result.op = "-"

TrainInit ==
    /\ losses \in {[k \in {"a"} |-> T] :
                      T \in {Quantiles_init(QuantileFractions), Mean_init}}
    /\ transformation = None
    /\ modelOut = [kind |-> "tensor", keys |-> <<>>]
    /\ call = NoCall
    /\ outcome = NoOutcome
    /\ engine = NoEngineCall
    /\ modelDevice = "cpu"
    /\ threads = [t \in Threads |-> IdleThread]
    /\ criterion = NoCriterion
    /\ net \in {Net(kind, FALSE, <<>>, <<>>, [m \in Modules |-> TRUE], 0,
                    NoRun, NoNetResult) : kind \in {"module", "object"}}

Create ==
    /\ NetIdle
    /\ net' = PytorchModel_create(net)
    /\ UNCHANGED <<losses, transformation, modelOut, call, outcome,
                   engine, modelDevice, threads, criterion>>

\* model.train(mode) with a bool, or model.eval().
SetMode ==
    \E mode \in BOOLEAN :
        /\ NetIdle
        /\ net.wrapped
        /\ net.training # [m \in Modules |-> mode]
        /\ net' = Module_train(net, mode)
        /\ UNCHANGED <<losses, transformation, modelOut, call, outcome,
                       engine, modelDevice, threads, criterion>>

\* The caller freezes or unfreezes the submodule.
SetChildMode ==
    /\ NetIdle
    /\ net.wrapped
    /\ net' = [net EXCEPT !.training["child"] = ~@]
    /\ UNCHANGED <<losses, transformation, modelOut, call, outcome,
                   engine, modelDevice, threads, criterion>>

TrainBegin ==
    \E training_data \in TrainingDataArgs,
       validation_data \in ValidationDataArgs, loss \in LossArgs,
       scheduler \in SchedulerArgs, n_epochs \in 0..MaxEpochs :
        /\ NetIdle
        /\ net.wrapped
        /\ net.runs < MaxRuns
        /\ net' = train_begin(net, training_data, validation_data, loss,
                              scheduler, n_epochs)
        /\ UNCHANGED <<losses, transformation, modelOut, call, outcome,
                       engine, modelDevice, threads, criterion>>

TrainEpoch ==
    /\ net.run.pc = "epoch"
    /\ net' = train_epoch(net)
    /\ UNCHANGED <<losses, transformation, modelOut, call, outcome,
                   engine, modelDevice, threads, criterion>>

ValidationBegin ==
    /\ net.run.pc = "validate"
    /\ net' = validation_begin(net)
    /\ UNCHANGED <<losses, transformation, modelOut, call, outcome,
                   engine, modelDevice, threads, criterion>>

ValidationEnd ==
    /\ net.run.pc = "validating"
    /\ net' = validation_end(net)
    /\ UNCHANGED <<losses, transformation, modelOut, call, outcome,
                   engine, modelDevice, threads, criterion>>

NoValidation ==
    /\ net.run.pc = "no validation"
    /\ net' = no_validation(net)
    /\ UNCHANGED <<losses, transformation, modelOut, call, outcome,
                   engine, modelDevice, threads, criterion>>

TrainReturn ==
    /\ net.run.pc = "return"
    /\ net' = train_return(net)
    /\ UNCHANGED <<losses, transformation, modelOut, call, outcome,
                   engine, modelDevice, threads, criterion>>

\* The caller has the result (or the exception) of create or train.
NetDiscard ==
    /\ net.result.op # "-"
    /\ net' = [net EXCEPT !.run = NoRun, !.result = NoNetResult]
    /\ UNCHANGED <<losses, transformation, modelOut, call, outcome,
                   engine, modelDevice, threads, criterion>>

TrainNext ==
    \/ Create
    \/ SetMode
    \/ SetChildMode
    \/ TrainBegin
    \/ TrainEpoch
    \/ ValidationBegin
    \/ ValidationEnd
    \/ NoValidation
    \/ TrainReturn
    \/ NetDiscard

TrainSpec == TrainInit /\ [][TrainNext]_vars

(***************************************************************************)
(* Properties                                                              *)
(***************************************************************************)
IsQuery == call.method \in QueryNames

XGiven == call.x # None

YPredGiven == call.y_pred.kind # "None"

SeqRange(s) == {s[i] : i \in DOMAIN s}

ForwardCount ==
    Cardinality({i \in DOMAIN outcome.events :
                    outcome.events[i].ev = "forward"})

\* The auxiliary argument the method checks for None was supplied.
AuxSupplied ==
    /\ call.method = "crps" => call.y_true.kind # "None"
    /\ call.method = "probability_larger_than" => call.y # None
    /\ call.method = "posterior_quantiles" => call.quantiles # None

\* Every Density of losses was built with bin_axis left at its default.
BinAxesSet ==
    \A k \in DOMAIN losses :
        losses[k].cls = "Density" => losses[k].bin_axis # None

\* The keys of the multi-output prediction the call is about: the supplied
\* y_pred, or else the model's output for x.
MultiOutput ==
    \/ call.y_pred.kind = "dict"
    \/ ~YPredGiven /\ XGiven /\ modelOut.kind = "dict"

PredKeys ==
    IF call.y_pred.kind = "dict"
    THEN ItemKeys(call.y_pred.items)
    ELSE SeqRange(modelOut.keys)

\* C1: a query method called with neither x nor y_pred raises ValueError,
\* whatever its other arguments, without a forward pass of the model and
\* without changing losses, transformation or the model.
C1_NoInputUsageError ==
    [][(/\ call'.method \in QueryNames
        /\ call'.x = None
        /\ call'.y_pred.kind = "None")
       => (/\ outcome'.status = "ValueError"
           /\ outcome'.events = <<>>
           /\ outcome'.ret.kind = "-"
           /\ losses' = losses
           /\ transformation' = transformation
           /\ modelOut' = modelOut)]_vars

C1_Witness ==
    /\ call.method = "crps"
    /\ ~XGiven /\ ~YPredGiven
    /\ call.y_true.kind = "dict"
    /\ call.key # None
    /\ outcome.status = "ValueError"

\* C2 (as claimed): a query method on a multi-output prediction whose keys
\* are all in losses, with its auxiliary arguments supplied (and, for crps, a
\* y_true mapping covering the prediction's keys), succeeds and returns a
\* mapping whose keys are exactly the keys whose representation has the method.
C2_FanOutSucceeds ==
    (/\ IsQuery
     /\ MultiOutput
     /\ PredKeys \subseteq DOMAIN losses
     /\ AuxSupplied
     /\ call.method = "probability_less_than" => call.y # None
     /\ call.method = "crps" =>
            /\ call.y_true.kind = "dict"
            /\ PredKeys \subseteq ItemKeys(call.y_true.items))
    => (/\ outcome.status = "return"
        /\ outcome.ret.kind = "dict"
        /\ ItemKeys(outcome.ret.items) =
               {k \in PredKeys : hasattr(losses[k], call.method)})

\* C3 (as claimed): on a single-output prediction, a key that is omitted or
\* not in losses makes every query method fail with KeyError.
C3_MissingKeyLookupError ==
    (/\ IsQuery
     /\ outcome.pred.kind = "tensor"
     /\ ~KeyInLosses(call.key))
    => (outcome.status = "KeyError" /\ outcome.ret.kind = "-")

\* C3 (amended): on a single-output prediction, a key that is omitted or not
\* in losses makes the query method fail with KeyError provided the auxiliary
\* argument the method checks (y_true of crps, y of probability_larger_than,
\* quantiles of posterior_quantiles) is supplied; when it is omitted the call
\* fails with ValueError, the argument check coming before the key lookup.
C3_MissingKeyAfterArgumentCheck ==
    (/\ IsQuery
     /\ outcome.pred.kind = "tensor"
     /\ ~KeyInLosses(call.key))
    => (/\ outcome.ret.kind = "-"
        /\ AuxSupplied => outcome.status = "KeyError"
        /\ ~AuxSupplied => outcome.status = "ValueError")

C3_Witness ==
    /\ call.method = "posterior_quantiles"
    /\ call.y_pred.kind = "tensor"
    /\ call.key = None
    /\ call.quantiles # None
    /\ outcome.status = "KeyError"

\* C4 (as claimed): on a single-output prediction whose selected
\* representation is a Mean, every query method other than posterior_mean
\* returns None.
C4_UnsupportedGivesNone ==
    (/\ IsQuery
     /\ call.method # "posterior_mean"
     /\ outcome.pred.kind = "tensor"
     /\ KeyInLosses(call.key)
     /\ LossAt(call.key).cls = "Mean"
     /\ AuxSupplied)
    => (outcome.status = "return" /\ outcome.ret.kind = "None")

\* C5: with y_pred supplied a query method never runs the model's forward
\* pass, whether or not x is supplied; with only x supplied it runs it
\* exactly once.
C5_ForwardOnlyWithoutPrediction ==
    IsQuery =>
        /\ YPredGiven => ForwardCount = 0
        /\ (~YPredGiven /\ XGiven) => ForwardCount = 1

C5_Witness ==
    /\ call.method = "posterior_mean"
    /\ XGiven /\ YPredGiven
    /\ call.y_pred.kind = "dict"
    /\ outcome.status = "return"
    /\ Len(outcome.ret.items) = 2
    /\ ForwardCount = 0

\* C6 (as claimed): crps without y_true raises ValueError whenever x or
\* y_pred is supplied.
C6_CrpsRequiresTruth ==
    (/\ call.method = "crps"
     /\ call.y_true.kind = "None"
     /\ XGiven \/ YPredGiven)
    => outcome.status = "ValueError"

\* C7 (as claimed): with the prediction supplied and every Density of losses
\* having its bin_axis, probability_larger_than without y,
\* probability_less_than without y and posterior_quantiles without quantiles
\* each raise ValueError.
C7_MissingArgumentUsageError ==
    (/\ YPredGiven
     /\ BinAxesSet
     /\ \/ call.method = "probability_larger_than" /\ call.y = None
        \/ call.method = "probability_less_than" /\ call.y = None
        \/ call.method = "posterior_quantiles" /\ call.quantiles = None)
    => outcome.status = "ValueError"

\* C8 (as claimed): when crps without y_true, probability_larger_than without
\* y or posterior_quantiles without quantiles raises its ValueError, the
\* model's forward pass has not been run.
C8_UsageErrorBeforeForward ==
    (/\ IsQuery
     /\ ~AuxSupplied
     /\ outcome.status = "ValueError")
    => ForwardCount = 0

\* C9 (as claimed): predict on a model whose output keys are all in losses
\* returns a tensor for a tensor output and, for a mapping output, a mapping
\* with the same keys.
C9_PredictKeepsShape ==
    (/\ call.method = "predict"
     /\ modelOut.kind = "dict" => SeqRange(modelOut.keys) \subseteq DOMAIN losses)
    => (/\ outcome.status = "return"
        /\ outcome.pred.kind = modelOut.kind
        /\ modelOut.kind = "dict" =>
               [i \in DOMAIN outcome.pred.items |-> outcome.pred.items[i].k]
                   = modelOut.keys)

InvertOp == Op("invert", None, None)

\* C10: in predict the forward pass comes first; with a transformation, invert
\* is applied once to each raw output, immediately before the
\* representation's predict, and never to a post-processed value; without a
\* transformation the raw output goes to the representation's predict.
C10_PredictStepOrder ==
    LET evs == outcome.events
    IN /\ \A i \in DOMAIN evs :
            /\ evs[i].ev = "forward" <=> i = 1
            /\ evs[i].ev = "invert" =>
                   /\ transformation # None
                   /\ evs[i].arg.ops = <<>>
                   /\ i < Len(evs)
                   /\ evs[i + 1].ev = "loss.predict"
                   /\ evs[i + 1].key = evs[i].key
            /\ evs[i].ev = "loss.predict" =>
                   /\ evs[i].arg.base = <<"model", evs[i].key>>
                   /\ transformation = None => evs[i].arg.ops = <<>>
                   /\ transformation # None =>
                          /\ evs[i].arg.ops = <<InvertOp>>
                          /\ evs[i - 1].ev = "invert"
                          /\ evs[i - 1].key = evs[i].key
       /\ \A j \in DOMAIN outcome.pred.items :
            LET ops == outcome.pred.items[j].v.ops
            IN \A n \in DOMAIN ops :
                   ops[n] = InvertOp => (n = 1 /\ transformation # None)
       /\ \A n \in DOMAIN outcome.pred.t.ops :
            outcome.pred.t.ops[n] = InvertOp => (n = 1 /\ transformation # None)

C10_Witness ==
    /\ call.method = "predict"
    /\ transformation # None
    /\ outcome.status = "return"
    /\ Len(outcome.pred.items) = 2
    /\ \E j \in DOMAIN outcome.pred.items :
           Len(outcome.pred.items[j].v.ops) = 3

\* C11 (as claimed): Density's constructor leaves bin_axis defined for every
\* value of its bin_axis argument, so every Density of losses has a bin_axis,
\* and the softmax of predict runs along it.
C11_BinAxisDefined ==
    /\ \A k \in DOMAIN losses :
           losses[k].cls = "Density" => losses[k].bin_axis # None
    /\ (call.method = "predict" /\ outcome.status = "return") =>
           \A j \in DOMAIN outcome.pred.items :
               LET it == outcome.pred.items[j]
               IN losses[it.k].cls = "Density" =>
                      \E n \in DOMAIN it.v.ops :
                          /\ it.v.ops[n].op = "softmax"
                          /\ it.v.ops[n].axis = losses[it.k].bin_axis

\* The library calls a query handed back, and the keys it worked on.
OutcomeTerms ==
    IF outcome.ret.kind = "value" THEN {outcome.ret.v}
    ELSE {outcome.ret.items[i].v : i \in DOMAIN outcome.ret.items}

PredTensors ==
    IF outcome.pred.kind = "tensor" THEN {outcome.pred.t}
    ELSE {outcome.pred.items[i].v : i \in DOMAIN outcome.pred.items}

OperatedKeys ==
    IF outcome.pred.kind = "dict" THEN ItemKeys(outcome.pred.items)
    ELSE IF KeyInLosses(call.key) THEN call.key ELSE {}

BinsLackKey(k) ==
    /\ k \in DOMAIN losses
    /\ losses[k].cls = "Density"
    /\ \E b \in losses[k].bins : b.kind = "dict" /\ ~HasKey(b.items, k)

\* C12 (as claimed): a Density whose bins is a per-key mapping hands the
\* library the bin edges selected for the output key, never the mapping itself
\* (in a query or in predict's normalisation), and an operation on a key that
\* the mapping lacks fails with KeyError.
C12_BinsSelectedByKey ==
    /\ \A term \in OutcomeTerms :
           term.lib = "qd" => \A b \in term.param : b.kind = "array"
    /\ call.method = "predict" =>
           \A t \in PredTensors : \A n \in DOMAIN t.ops :
               t.ops[n].op = "normalize" =>
                   \A b \in t.ops[n].param : b.kind = "array"
    /\ \A k \in OperatedKeys :
           (/\ BinsLackKey(k)
            /\ call.method = "predict" \/ IsQuery)
           => outcome.status # "return"

IsQuantilesTarget == TheTarget.cls = "Quantiles"

IsDensityTarget == TheTarget.cls = "Density"

TargetFractions == CHOOSE f \in TheTarget.quantiles : TRUE

TargetEdges == (CHOOSE b \in TheTarget.bins : TRUE).edges

StrictlyIncreasing(xs) == \A i \in 1..(Len(xs) - 1) : xs[i] < xs[i + 1]

\* C13 (as claimed): for a Quantiles target (with at least two fractions) and
\* for a Density target (with its bin_axis), probability_larger_than and
\* probability_less_than both succeed on the same prediction and threshold,
\* and their results add up to 1.
C13_ProbabilitiesSumToOne ==
    (/\ engine.op = "probabilities"
     /\ BinAxesSet
     /\ IsQuantilesTarget => Len(TargetFractions) >= 2)
    => (/\ engine.first.status = "return"
        /\ engine.second.status = "return"
        /\ RAdd(engine.first.xs[1], engine.second.xs[1]) = One)

\* C14: for a Quantiles target with k >= 2 fractions, cdf gives the abscissae
\* [2*y_1 - y_2, y_1, ..., y_k, 2*y_k - y_(k-1)] and the ordinates
\* [0, tau_1, ..., tau_k, 1], both of length k + 2, the ordinates
\* non-decreasing from 0 to 1.
C14_QuantilesCdfPoints ==
    (/\ engine.op = "cdf"
     /\ IsQuantilesTarget
     /\ Len(TargetFractions) >= 2)
    => LET k == Len(TargetFractions)
           y == engine.data
           xs == engine.first.xs
           ys == engine.first.ys
       IN /\ engine.first.status = "return"
          /\ Len(xs) = k + 2 /\ Len(ys) = k + 2
          /\ xs[1] = Rat(2 * y[1] - y[2], 1)
          /\ xs[k + 2] = Rat(2 * y[k] - y[k - 1], 1)
          /\ \A i \in 1..k :
                 /\ xs[i + 1] = Rat(y[i], 1)
                 /\ ys[i + 1] = Rat(TargetFractions[i], 100)
          /\ ys[1] = Zero /\ ys[k + 2] = One
          /\ \A i \in 1..(k + 1) : RLeq(ys[i], ys[i + 1])

C14_Witness ==
    /\ engine.op = "cdf"
    /\ IsQuantilesTarget
    /\ TargetFractions = <<10, 50, 90>>
    /\ engine.data = <<2, 5, 9>>
    /\ engine.first.xs = <<<<-1, 1>>, <<2, 1>>, <<5, 1>>, <<9, 1>>, <<13, 1>>>>
    /\ engine.first.ys = <<<<0, 1>>, <<1, 10>>, <<1, 2>>, <<9, 10>>, <<1, 1>>>>

\* C15 (as claimed): for a Quantiles target and a prediction with strictly
\* increasing values, posterior_quantiles at the target's own fractions returns
\* the predicted values.
C15_RoundTrip ==
    (/\ engine.op = "posterior_quantiles"
     /\ engine.arg = TheTarget.quantiles
     /\ StrictlyIncreasing(engine.data))
    => (/\ engine.first.status = "return"
        /\ engine.first.xs = to_array(engine.data))

\* C15 (amended): the round trip holds for a Quantiles target with at least
\* two fractions; with a single fraction posterior_quantiles fails with the
\* domain error of the CDF construction.
C15_RoundTripTwoOrMore ==
    (/\ engine.op = "posterior_quantiles"
     /\ engine.arg = TheTarget.quantiles
     /\ StrictlyIncreasing(engine.data))
    => IF Len(TargetFractions) >= 2
       THEN /\ engine.first.status = "return"
            /\ engine.first.xs = to_array(engine.data)
       ELSE engine.first.status = "DomainError"

C15_Witness ==
    /\ engine.op = "posterior_quantiles"
    /\ TargetFractions = <<10, 50, 90>>
    /\ engine.arg = {<<10, 50, 90>>}
    /\ engine.data = <<2, 5, 9>>
    /\ engine.first.xs = <<<<2, 1>>, <<5, 1>>, <<9, 1>>>>

AllEqual(xs) == \A i \in DOMAIN xs : xs[i] = xs[1]

\* C16 (as claimed): for a Density target with k bins and equal logits,
\* predict gives (1/k) / width in every bin, and cdf of that prediction is 0 at
\* the first edge, grows by 1/k per bin and is 1 at the last edge.
C16_UniformLogits ==
    (/\ engine.op \in {"predict", "cdf"}
     /\ IsDensityTarget
     /\ AllEqual(engine.data))
    => LET k == Len(engine.data)
           e == TargetEdges
           r == engine.first
       IN /\ r.status = "return"
          /\ engine.op = "predict" =>
                 \A i \in 1..k :
                     r.xs[i] = RDiv(Rat(1, k), Rat(e[i + 1] - e[i], 1))
          /\ engine.op = "cdf" =>
                 /\ Len(r.ys) = k + 1
                 /\ r.ys[1] = Zero /\ r.ys[k + 1] = One
                 /\ \A i \in 1..k : RSub(r.ys[i + 1], r.ys[i]) = Rat(1, k)

\* C17: cdf on a Quantiles target with fewer than 2 fractions fails with a
\* domain error and gives neither abscissae nor ordinates.
C17_CdfNeedsTwoQuantiles ==
    (/\ engine.op = "cdf"
     /\ IsQuantilesTarget
     /\ Len(TargetFractions) < 2)
    => (/\ engine.first.status = "DomainError"
        /\ engine.first.xs = <<>>
        /\ engine.first.ys = <<>>)

C17_Witness ==
    /\ engine.op = "cdf"
    /\ IsQuantilesTarget
    /\ TargetFractions = <<50>>
    /\ engine.data = <<4>>
    /\ engine.first.status = "DomainError"

\* C18: Quantiles.predict and Mean.predict hand back their argument, so
\* predict's value for such a key is what went into the representation's
\* predict; Mean.posterior_mean hands back its argument, so posterior_mean
\* that returns for a multi-output prediction has every Mean key, the value
\* being that key's prediction (and likewise for a single output whose key
\* selects a Mean).
C18_IdentityOperations ==
    /\ (call.method = "predict" /\ outcome.status = "return") =>
           \A j \in DOMAIN outcome.pred.items :
               LET it == outcome.pred.items[j]
               IN losses[it.k].cls \in {"Quantiles", "Mean"} =>
                      \E i \in DOMAIN outcome.events :
                          /\ outcome.events[i].ev = "loss.predict"
                          /\ outcome.events[i].key = it.k
                          /\ outcome.events[i].arg = it.v
    /\ (call.method = "posterior_mean" /\ outcome.status = "return") =>
           /\ outcome.pred.kind = "dict" =>
                  \A j \in DOMAIN outcome.pred.items :
                      LET it == outcome.pred.items[j]
                      IN losses[it.k].cls = "Mean" =>
                             \E i \in DOMAIN outcome.ret.items :
                                 /\ outcome.ret.items[i].k = it.k
                                 /\ outcome.ret.items[i].v =
                                        Term("self", "y_pred", it.v, PyNone,
                                             None, None, None)
           /\ (outcome.pred.kind = "tensor" /\ LossAt(call.key).cls = "Mean") =>
                  outcome.ret.v = Term("self", "y_pred", outcome.pred.t,
                                       PyNone, None, None, None)

C18_Witness ==
    /\ call.method = "posterior_mean"
    /\ outcome.status = "return"
    /\ outcome.pred.kind = "dict"
    /\ Len(outcome.pred.items) = 2
    /\ Len(outcome.ret.items) = 2
    /\ losses["a"].cls = "Mean"
    /\ losses["b"].cls = "Quantiles"

\* C19: no call of predict or of a query method, returning or raising, changes
\* losses (the mapping, or a representation's quantiles, bins or axes) or
\* transformation.
C19_TargetsUnchanged ==
    [][losses' = losses /\ transformation' = transformation]_vars

C19_Witness ==
    /\ call.method = "posterior_quantiles"
    /\ call.quantiles # None
    /\ outcome.status = "return"
    /\ outcome.ret.kind = "dict"
    /\ \E k \in DOMAIN losses :
           /\ losses[k].cls = "Quantiles"
           /\ losses[k].quantiles = {QuantileFractions}

\* C20 (as claimed): whatever the interleaving of two predict calls with
\* inputs on different devices, the forward pass of each runs with the model
\* on the device of its own input, and the call gives what it gives alone.
C20_NoDeviceRace ==
    \A t \in Threads :
        /\ threads[t].ran # "-" => threads[t].ran = threads[t].dev
        /\ threads[t].pc = "done" => threads[t].status = "return"

\* The keys of the resolved prediction whose representation has the method.
CapableKeys ==
    {k \in ItemKeys(outcome.pred.items) :
        k \in DOMAIN losses /\ hasattr(losses[k], call.method)}

CrpsMultiOutput ==
    /\ call.method = "crps"
    /\ outcome.pred.kind = "dict"
    /\ call.y_true.kind # "None"

\* Every entry of the result of crps is the representation's crps on that
\* key's prediction and that key's truth.
CrpsPairedByKey ==
    \A i \in DOMAIN outcome.ret.items :
        LET k == outcome.ret.items[i].k
            v == outcome.ret.items[i].v
        IN /\ call.y_true.kind = "dict"
           /\ HasKey(call.y_true.items, k)
           /\ v.fn = "crps"
           /\ v.y_pred = GetItem(outcome.pred.items, k)
           /\ v.y_true = PyTensor(GetItem(call.y_true.items, k))
           /\ v.param = (IF losses[k].cls = "Quantiles"
                         THEN losses[k].quantiles ELSE losses[k].bins)

\* C22 (as claimed): in multi-output mode crps pairs prediction and truth by
\* key, and a y_true mapping that lacks a key of y_pred makes the call fail
\* with KeyError (checked where every Density of losses has its bin_axis).
C22_CrpsPairsByKey ==
    (CrpsMultiOutput /\ BinAxesSet) =>
        /\ outcome.status = "return" => CrpsPairedByKey
        /\ (/\ call.y_true.kind = "dict"
            /\ ~(ItemKeys(outcome.pred.items)
                     \subseteq ItemKeys(call.y_true.items)))
           => outcome.status = "KeyError"

\* C22 (amended): crps pairs prediction and truth by key for the keys whose
\* representation has crps. A y_true mapping that lacks such a key makes the
\* call fail without a result, with KeyError unless a Density without bin_axis
\* among the prediction's keys raised first; a key whose representation has no
\* crps is skipped and need not be in y_true.
C22_CrpsPairsCapableKeys ==
    CrpsMultiOutput =>
        /\ outcome.status = "return" =>
               /\ CrpsPairedByKey
               /\ ItemKeys(outcome.ret.items) = CapableKeys
        /\ (/\ call.y_true.kind = "dict"
            /\ ~(CapableKeys \subseteq ItemKeys(call.y_true.items)))
           => /\ outcome.status # "return"
              /\ outcome.ret.kind = "-"
              /\ (\A k \in CapableKeys : losses[k].cls = "Density" =>
                                             losses[k].bin_axis # None)
                 => outcome.status = "KeyError"

C22_Witness ==
    /\ call.method = "crps"
    /\ outcome.status = "return"
    /\ Len(outcome.pred.items) = 2
    /\ ItemKeys(call.y_true.items) = {"a"}
    /\ ItemKeys(outcome.ret.items) = {"a"}
    /\ losses["a"].cls = "Quantiles"
    /\ losses["b"].cls = "Mean"

\* A multi-output query whose prediction has a key that losses lacks.
UnknownPredKey ==
    /\ IsQuery
    /\ MultiOutput
    /\ ~(PredKeys \subseteq DOMAIN losses)

\* The result of a multi-output query has entries for prediction keys only.
ResultKeysFromPrediction ==
    (IsQuery /\ outcome.status = "return" /\ outcome.ret.kind = "dict")
    => ItemKeys(outcome.ret.items) \subseteq PredKeys

PostProcessed == call.method = "_post_process_prediction"

\* The bins a Density uses when post-processing with the caller's arguments.
BinsForCaller(self) ==
    LET own == CHOOSE b \in self.bins : TRUE
    IN IF call.bins # None THEN call.bins
       ELSE IF own.kind = "dict"
       THEN {Bins(GetItem(own.items, CHOOSE k \in call.key : TRUE))}
       ELSE self.bins

\* A Density among the prediction's targets needs the caller's key for its
\* bins and does not find it.
CallerKeyMissing ==
    \E k \in PredKeys :
        /\ k \in DOMAIN losses
        /\ losses[k].cls = "Density"
        /\ call.bins = None
        /\ \E own \in losses[k].bins :
               /\ own.kind = "dict"
               /\ (call.key = None \/ ~(call.key \subseteq ItemKeys(own.items)))

\* C23: in multi-output mode MRNN._post_process_prediction hands every
\* representation the whole prediction mapping and the caller's key, not the
\* slice and key of the loop, and its result has exactly the prediction keys
\* whose representation defines _post_process_prediction.
C23_FullMappingAndCallerKey ==
    (PostProcessed /\ call.y_pred.kind = "dict") =>
        /\ outcome.status = "return" =>
               /\ outcome.pred.kind = "dict"
               /\ ItemKeys(outcome.pred.items) =
                      {k \in PredKeys : hasattr(losses[k],
                                                 "_post_process_prediction")}
               /\ \A i \in DOMAIN outcome.pred.items :
                      LET k == outcome.pred.items[i].k
                          v == outcome.pred.items[i].v
                      IN /\ v.base = <<"caller", "*">>
                         /\ Len(v.ops) = 2
                         /\ v.ops[2].op = "normalize"
                         /\ v.ops[2].param = BinsForCaller(losses[k])
        /\ CallerKeyMissing => outcome.status # "return"

C23_Witness ==
    /\ PostProcessed
    /\ outcome.status = "return"
    /\ Len(call.y_pred.items) = 2
    /\ call.bins = None
    /\ call.key = {"a"}
    /\ DOMAIN losses = {"a", "b"}
    /\ losses["a"].cls = "Mean"
    /\ losses["b"].cls = "Density"
    /\ (CHOOSE own \in losses["b"].bins : TRUE).kind = "dict"
    /\ ItemKeys(outcome.pred.items) = {"b"}

\* The loss that matches a target representation, with the given mask.
MatchingLoss(l, obj, mask) ==
    /\ obj.mask = mask
    /\ l.cls = "Quantiles" =>
           obj.cls = "QuantileLoss" /\ obj.quantiles = l.quantiles
    /\ l.cls = "Density" => obj.cls = "CrossEntropyLoss"
    /\ l.cls = "Mean" => obj.cls = "MSELoss"

OneLossPerKey(mask) ==
    /\ DOMAIN criterion.loss = DOMAIN losses
    /\ \A k \in DOMAIN losses :
           MatchingLoss(losses[k], criterion.loss[k], mask)

\* C21: MRNN.train builds exactly one loss per key of the target mapping, the
\* one matching the key's representation, constructed with the caller's mask;
\* every constructor accepts the arguments it is given.
C21_OneLossPerKey ==
    criterion.op = "MRNN.train" =>
        /\ criterion.status = "return"
        /\ OneLossPerKey(criterion.mask)

\* C24: a MixedLoss holds one loss per key, and calling it with (y_pred,
\* y_true, key) returns that key's loss evaluated on (y_pred, y_true) (stated
\* for the losses of this package, here QuantileLoss); a key that is not in
\* the mapping fails with KeyError.
C24_MixedLossEvaluatesKey ==
    /\ (criterion.op = "MixedLoss" /\ criterion.status = "return")
       => OneLossPerKey(None)
    /\ criterion.op = "MixedLoss.__call__" =>
           \A key \in criterion.key :
               IF key \notin DOMAIN criterion.loss
               THEN criterion.status = "KeyError"
               ELSE criterion.loss[key].cls = "QuantileLoss" =>
                        /\ criterion.status = "return"
                        /\ criterion.value =
                               LossTerm(criterion.loss[key], "y_pred",
                                        "y_true")

\* The samples of the batch whose target value is above the mask.
AboveMask ==
    {i \in DOMAIN criterion.y_true :
        \A m \in criterion.mask : RLess(Rat(m, 1), criterion.y_true[i])}

EvaluatedQuantiles ==
    Percent(CHOOSE q \in
                criterion.loss[CHOOSE k \in criterion.key : TRUE].quantiles :
                    TRUE)

\* C25: for every numeric mask, 0 included, the quantile loss of a batch is
\* the sum of the pinball losses of the samples with y_true > mask, divided
\* by (their number * the number of quantiles); with mask None it is the mean
\* over all samples.
C25_MaskExcludesElements ==
    (criterion.op = "QuantileLoss.__call__" /\ AboveMask # {}) =>
        /\ criterion.status = "return"
        /\ criterion.value =
               Number(RDiv(PinballSum(EvaluatedQuantiles, criterion.y_pred,
                                      criterion.y_true, AboveMask),
                           Rat(Cardinality(AboveMask)
                                   * Len(EvaluatedQuantiles), 1)))

\* predict stopped with AttributeError right after the forward pass, before
\* any target was applied: the lookup of self.transformation failed.
PredictLacksTransformation ==
    /\ call.method = "predict"
    /\ outcome.status = "AttributeError"
    /\ Len(outcome.events) = 1

\* C30: after __setstate__ the instance has a transformation attribute: the
\* stored one if the state has one, None if not; predict and train then never
\* fail for want of the attribute.
C30_TransformationRestored ==
    /\ call.method = "__setstate__" =>
           /\ losses = call.state.losses
           /\ transformation = (IF call.state.transformation = Missing
                                THEN None ELSE call.state.transformation)
    /\ ~Unrestored => transformation # Missing
    /\ criterion.op = "MRNN.train" => criterion.status # "AttributeError"
    /\ ~PredictLacksTransformation

C30_Witness ==
    /\ call.method = "__setstate__"
    /\ call.state.transformation = Missing
    /\ transformation = None
    /\ ~Unrestored

TrainReturned == net.result.op = "train" /\ net.result.status = "return"

\* The errors of epochs 1..n of the current run.
EpochErrors(kind, n) == [i \in 1..n |-> Err(kind, net.runs, i)]

\* C26: the scheduler is stepped exactly once per epoch in every run; a
\* scheduler whose step takes a metric gets that epoch's validation error
\* with validation data and that epoch's training error without.
C26_SteppedOncePerEpoch ==
    TrainReturned =>
        LET r == net.run
        IN /\ Len(r.steps) = r.n_epochs
           /\ \A i \in DOMAIN r.steps :
                  /\ r.steps[i].epoch = i
                  /\ r.scheduler = "metric" =>
                         r.steps[i].metric =
                             {Err(IF r.validation_data = "none" THEN "train"
                                  ELSE "validation", net.runs, i)}

\* The step in which train returns.
Returning == net.run.pc = "return" /\ net'.run.pc = "done"

C29_CreateIdempotent ==
    [][(net.result.op = "-" /\ net'.result.op = "create") =>
           IF net.kind # "module"
           THEN /\ net'.result.status = "ModelNotSupported"
                /\ net' = [net EXCEPT !.result = net'.result]
           ELSE /\ net'.result = NetResult("create", "return", {net.id})
                /\ net'.id = net.id
                /\ net'.wrapped
                /\ net.wrapped => net' = [net EXCEPT !.result = net'.result]
      ]_vars

C29_Witness ==
    /\ net.result = NetResult("create", "return", {net.id})
    /\ net.wrapped
    /\ Len(net.training_errors) > 0
    /\ Len(net.validation_errors) > 0

====
